---- MODULE Spec2Model ----
(***************************************************************************)
(* A model of DLL::resolve (src/src/dll.rs): the resolver that turns the   *)
(* flat ECMA-335 metadata tables into the linked Resolution.  The tables   *)
(* are the input; every pass of resolve is one action, taken in the order  *)
(* of the source; a pass that throws ends the call.                        *)
(*                                                                         *)
(* Rows keep the columns the resolver's control flow reads.  Heap lookups  *)
(* and signature decoding live in other modules and are not modelled.      *)
(* Table columns are 1-based row numbers as stored in the image; the       *)
(* resolver's own positions (idx, internal_idx, ...) are 0-based, as in    *)
(* the source.                                                             *)
(***************************************************************************)
EXTENDS Integers, Sequences, FiniteSets, TLC

VARIABLES
    tables,          \* the metadata tables (tables.method_semantics shrinks)
    cli,             \* streams present, entry point token
    opts,            \* ResolveOptions
    overflow_checks, \* build profile: TRUE panics on usize underflow, FALSE wraps
    pc,              \* the pass that runs next
    result,          \* "running", "ok", "err" or "panic"
    err_at,          \* the pass that threw ("" while none did)
    assembly,        \* Option<Assembly>
    types,           \* Vec<TypeDefinition>
    owned_fields,    \* per type: the range of Field rows it owns
    owned_methods,   \* per type: the range of MethodDef rows it owns
    owned_params,    \* per method, in build order: (m_idx, range of Param rows)
    shared,          \* files, resources, exports, module_refs, type_refs, interface_idxs
    fields,          \* lookup: Field row -> (type_idx, position)
    methods,         \* lookup: MethodDef row -> MethodIndex
    params,          \* lookup: Param row -> (m_idx, sequence)
    properties,      \* lookup: Property row -> (type_idx, position)
    events,          \* lookup: Event row -> (type_idx, position)
    constraint_map,  \* GenericParamConstraint row -> (generic row, position)
    refs,            \* field_refs, method_refs, field_map, method_map
    res              \* Option<Resolution>

vars == <<tables, cli, opts, overflow_checks, pc, result, err_at, assembly,
          types, owned_fields, owned_methods, owned_params, shared, fields,
          methods, params, properties, events, constraint_map, refs, res>>

(***************************************************************************)
(* Bounds of the model.                                                    *)
(***************************************************************************)
MaxSem == 2       \* MethodSemantics rows beyond the listeners of an event
MaxList == 4      \* the largest value tried in a list column
MaxRow == 6       \* the largest row number tried in an index column
MaxGeneric == 3   \* GenericParam rows
MaxNumber == 1    \* the largest GenericParam.number
MaxFlags == 7     \* the largest GenericParam.flags
MaxDup == 3       \* rows of one attachment table
MaxFollow == 1    \* CustomAttribute rows after the first
MaxListener == 3  \* MethodSemantics rows of the listeners scenario
MaxRef == 3       \* MemberRef rows
MaxParam == 2     \* Param rows and signature parameters of a method
MaxSequence == 3  \* the largest Param.sequence
MaxExport == 2    \* ExportedType rows
MaxLayout == 2    \* ClassLayout rows
MaxInstr == 2     \* instructions of a method body
MaxByte == 3      \* the largest byte offset of an exception clause

(***************************************************************************)
(* Values.                                                                 *)
(***************************************************************************)
None == <<>>
Some(x) == <<x>>
IsSome(o) == Len(o) = 1
Unwrap(o) == o[1]

\* usize::MAX: what 0 - 1 wraps to in a build without overflow checks.  The
\* model's integers stop at 2^31 - 1; every table length is far below it.
UsizeMax == (2 ^ 30 - 1) * 2 + 1

\* x - 1 on usize, x being a 1-based column.
Underflows(x) == x = 0 /\ overflow_checks
Sub1(x) == IF x = 0 THEN UsizeMax ELSE x - 1

\* check_bitmask!(x, m) for a single-bit mask m.
HasBit(x, m) == (x \div m) % 2 = 1

\* Vec positions are 0-based.
At(s, i) == s[i + 1]
InVec(s, i) == i >= 0 /\ i < Len(s)
SetAt(s, i, v) == [s EXCEPT ![i + 1] = v]
RemoveAt(s, i) == [k \in 1..(Len(s) - 1) |-> IF k <= i THEN s[k] ELSE s[k + 1]]

\* A coded index: the tag and the 1-based row.
Coded(tag, row) == [tag |-> tag, row |-> row]
Null == Coded("Null", 0)

\* The outcome of a pass: it completes with a value, throws, or panics.
Done(v) == [st |-> "ok", v |-> v]
Throw == [st |-> "err", v |-> <<>>]
Panic == [st |-> "panic", v |-> <<>>]

\* MethodMemberIndex and MethodIndex.
Method(i) == [kind |-> "Method", idx |-> i, other |-> 0]
PropertyGetter(i) == [kind |-> "PropertyGetter", idx |-> i, other |-> 0]
PropertySetter(i) == [kind |-> "PropertySetter", idx |-> i, other |-> 0]
PropertyOther(i, o) == [kind |-> "PropertyOther", idx |-> i, other |-> o]
EventAdd(i) == [kind |-> "EventAdd", idx |-> i, other |-> 0]
EventRemove(i) == [kind |-> "EventRemove", idx |-> i, other |-> 0]
EventRaise(i) == [kind |-> "EventRaise", idx |-> i, other |-> 0]
EventOther(i, o) == [kind |-> "EventOther", idx |-> i, other |-> o]
MethodIndex(t, m) == [parent_type |-> t, member |-> m]

\* What a slot of a Vec created by new_with_len! holds until it is written:
\* whatever the allocation held.  Two samples: a plausible value and a wild one.
GarbagePair == {<<0, 0>>, <<UsizeMax, UsizeMax>>}
GarbageMethodIndex == {MethodIndex(0, Method(0)), MethodIndex(UsizeMax, Method(UsizeMax))}

(***************************************************************************)
(* The passes, in source order.                                            *)
(***************************************************************************)
Passes == <<"heaps", "assembly", "assembly_refs", "type_defs", "nested_class",
            "ranges", "files", "type_refs", "interfaces", "fields",
            "field_layout", "field_rva", "methods", "impl_map", "security",
            "generic_params", "generic_sort", "params", "field_marshal",
            "properties", "constants", "events", "method_semantics",
            "member_refs", "method_impl", "resolution", "custom_attributes",
            "method_bodies", "done">>

PassNo(p) == CHOOSE k \in 1..Len(Passes) : Passes[k] = p
NextPass(p) == Passes[PassNo(p) + 1]

(***************************************************************************)
(* heaps: the four heaps and the #~ stream must be present.                *)
(***************************************************************************)
RequiredStreams == {"#Strings", "#Blob", "#GUID", "#US", "#~"}

HeapsPass(streams) ==
    IF RequiredStreams \subseteq streams THEN Done(<<>>) ELSE Throw

(***************************************************************************)
(* assembly: row 0 of the Assembly table, if present.                      *)
(***************************************************************************)
HashNone == 0
HashMD5 == 32771
HashSHA1 == 32772

AssemblyPass(rows) ==
    IF Len(rows) = 0 THEN Done(None)
    ELSE IF rows[1].hash_alg_id \in {HashNone, HashMD5, HashSHA1}
         THEN Done(Some([hash_algorithm |-> rows[1].hash_alg_id,
                         security |-> None, attributes |-> <<>>]))
         ELSE Throw

(***************************************************************************)
(* assembly references: one shared cell per AssemblyRef row.               *)
(***************************************************************************)
AssemblyRefsPass(rows) == Done([k \in 1..Len(rows) |-> [attributes |-> <<>>]])

(***************************************************************************)
(* type definitions: one TypeDefinition per TypeDef row, members empty.    *)
(***************************************************************************)
LayoutAuto == 0
LayoutSequential == 8
LayoutExplicit == 16

\* tables.class_layout.iter().find(|c| c.parent.0 - 1 == idx): the outcome is
\* the first matching row (0 when none), or a panic on a parent of 0.
FindClassLayout(layouts, idx) ==
    LET F[k \in 0..Len(layouts)] ==
            \* searching rows k+1..: the row found, 0, or -1 for a panic
            IF k = Len(layouts) THEN 0
            ELSE IF Underflows(layouts[k + 1].parent) THEN -1
            ELSE IF Sub1(layouts[k + 1].parent) = idx THEN k + 1
            ELSE F[k + 1]
    IN  F[0]

NewType(idx, layout) ==
    [row |-> idx, layout |-> layout, fields |-> <<>>, properties |-> <<>>,
     methods |-> <<>>, events |-> <<>>, encloser |-> None, overrides |-> <<>>,
     implements |-> <<>>, generic_parameters |-> <<>>, security |-> None,
     attributes |-> <<>>]

\* t.flags & 0x18
LayoutFlags(flags) == ((flags \div 8) % 4) * 8

TypeDefOne(t, idx, layouts) ==
    IF LayoutFlags(t.flags) = LayoutAuto THEN Done(NewType(idx, [kind |-> "Automatic", row |-> 0]))
    ELSE LET found == FindClassLayout(layouts, idx) IN
         IF found = -1 THEN Panic
         ELSE IF LayoutFlags(t.flags) = LayoutSequential
              THEN Done(NewType(idx, [kind |-> "Sequential", row |-> found]))
         ELSE IF LayoutFlags(t.flags) = LayoutExplicit
              THEN Done(NewType(idx, [kind |-> "Explicit", row |-> found]))
         ELSE Panic   \* unreachable!()

TypeDefsPass(rows, layouts) ==
    LET F[k \in 0..Len(rows)] ==
            IF k = 0 THEN Done(<<>>)
            ELSE LET prev == F[k - 1] IN
                 IF prev.st # "ok" THEN prev
                 ELSE LET one == TypeDefOne(rows[k], k - 1, layouts) IN
                      IF one.st # "ok" THEN one
                      ELSE Done(Append(prev.v, one.v))
    IN  F[Len(rows)]

(***************************************************************************)
(* nested classes.                                                         *)
(***************************************************************************)
NestedClassOne(tys, n) ==
    IF Underflows(n.nested_class) THEN Panic
    ELSE LET nest_idx == Sub1(n.nested_class) IN
         IF ~InVec(tys, nest_idx) THEN Throw
         ELSE IF Underflows(n.enclosing_class) THEN Panic
         ELSE LET enclose_idx == Sub1(n.enclosing_class) IN
              IF enclose_idx < Len(tys)
              THEN Done([tys EXCEPT ![nest_idx + 1].encloser = Some(enclose_idx)])
              ELSE Throw

NestedClassPass(tys, rows) ==
    LET F[k \in 0..Len(rows)] ==
            IF k = 0 THEN Done(tys)
            ELSE LET prev == F[k - 1] IN
                 IF prev.st # "ok" THEN prev ELSE NestedClassOne(prev.v, rows[k])
    IN  F[Len(rows)]

(***************************************************************************)
(* range_index!: the rows of an indexed table that row idx of a table owns *)
(* through a list column: from its own column to the next row's (the last  *)
(* row: to the end).  lists is the column, len the indexed table's length. *)
(***************************************************************************)
RangeEnd(lists, idx, len) ==
    IF idx + 2 <= Len(lists) THEN lists[idx + 2] ELSE len + 1

RangeIndex(lists, idx, len) ==
    IF Underflows(lists[idx + 1]) \/ Underflows(RangeEnd(lists, idx, len)) THEN Panic
    ELSE LET start == Sub1(lists[idx + 1])
             end == Sub1(RangeEnd(lists, idx, len))
         IN  IF start <= end /\ end <= len
             THEN Done([start |-> start, end |-> end])
             ELSE Throw

\* The 0-based rows of a range, in order.
RangeRows(r) == [k \in 1..(r.end - r.start) |-> r.start + k - 1]

Column(rows, col) == [k \in 1..Len(rows) |-> rows[k][col]]

OwnedRanges(lists, len) ==
    LET F[k \in 0..Len(lists)] ==
            IF k = 0 THEN Done(<<>>)
            ELSE LET prev == F[k - 1] IN
                 IF prev.st # "ok" THEN prev
                 ELSE LET r == RangeIndex(lists, k - 1, len) IN
                      IF r.st # "ok" THEN r ELSE Done(Append(prev.v, r.v))
    IN  F[Len(lists)]

RangesPass(tbl) ==
    LET f == OwnedRanges(Column(tbl.type_def, "field_list"), Len(tbl.field)) IN
    IF f.st # "ok" THEN f
    ELSE LET m == OwnedRanges(Column(tbl.type_def, "method_list"), Len(tbl.method_def)) IN
         IF m.st # "ok" THEN m
         ELSE Done([owned_fields |-> f.v, owned_methods |-> m.v])

(***************************************************************************)
(* files, manifest resources, exported types, module, module references.   *)
(* A shared handle (Rc) is the kind and the position of the cell it        *)
(* points to.                                                              *)
(***************************************************************************)
Handle(kind, idx) == [kind |-> kind, idx |-> idx]
Cell == [attributes |-> <<>>]

VisibilityPublic == 1
VisibilityPrivate == 2

ResourceOne(r, nfiles, nasm) ==
    IF (r.flags % 8) \notin {VisibilityPublic, VisibilityPrivate} THEN Throw
    ELSE IF r.implementation.tag = "File"
         THEN IF Underflows(r.implementation.row) THEN Panic
              ELSE IF Sub1(r.implementation.row) < nfiles
                   THEN Done([implementation |-> Some(Handle("File", Sub1(r.implementation.row))),
                              attributes |-> <<>>])
                   ELSE Throw
    ELSE IF r.implementation.tag = "AssemblyRef"
         THEN IF Underflows(r.implementation.row) THEN Panic
              ELSE IF Sub1(r.implementation.row) < nasm
                   THEN Done([implementation |-> Some(Handle("AssemblyRef", Sub1(r.implementation.row))),
                              attributes |-> <<>>])
                   ELSE Throw
    ELSE IF r.implementation.tag = "ExportedType" THEN Throw
    ELSE Done([implementation |-> None, attributes |-> <<>>])

ExportOne(e, nfiles, nasm, export_len) ==
    IF e.implementation.tag = "File"
    THEN IF Underflows(e.implementation.row) THEN Panic
         ELSE IF Sub1(e.implementation.row) < nfiles
              THEN Done([name |-> e.name, namespace |-> e.namespace, attributes |-> <<>>,
                         implementation |-> [kind |-> "ModuleFile",
                                             at |-> Handle("File", Sub1(e.implementation.row))]])
              ELSE Throw
    ELSE IF e.implementation.tag = "AssemblyRef"
    THEN IF Underflows(e.implementation.row) THEN Panic
         ELSE IF Sub1(e.implementation.row) < nasm
              THEN Done([name |-> e.name, namespace |-> e.namespace, attributes |-> <<>>,
                         implementation |-> [kind |-> "TypeForwarder",
                                             at |-> Handle("AssemblyRef", Sub1(e.implementation.row))]])
              ELSE Throw
    ELSE IF e.implementation.tag = "ExportedType"
    THEN IF Underflows(e.implementation.row) THEN Panic
         ELSE IF Sub1(e.implementation.row) < export_len
              THEN Done([name |-> e.name, namespace |-> e.namespace, attributes |-> <<>>,
                         implementation |-> [kind |-> "Nested",
                                             at |-> Handle("Index", Sub1(e.implementation.row))]])
              ELSE Throw
    ELSE Throw

ResourcesLoop(rows, nfiles, nasm) ==
    LET F[k \in 0..Len(rows)] ==
            IF k = 0 THEN Done(<<>>)
            ELSE LET prev == F[k - 1] IN
                 IF prev.st # "ok" THEN prev
                 ELSE LET one == ResourceOne(rows[k], nfiles, nasm) IN
                      IF one.st # "ok" THEN one ELSE Done(Append(prev.v, one.v))
    IN  F[Len(rows)]

ExportsLoop(rows, nfiles, nasm) ==
    LET F[k \in 0..Len(rows)] ==
            IF k = 0 THEN Done(<<>>)
            ELSE LET prev == F[k - 1] IN
                 IF prev.st # "ok" THEN prev
                 ELSE LET one == ExportOne(rows[k], nfiles, nasm, Len(rows)) IN
                      IF one.st # "ok" THEN one ELSE Done(Append(prev.v, one.v))
    IN  F[Len(rows)]

FilesPass(tbl, sh) ==
    LET nfiles == Len(tbl.file)
        nasm == Len(sh.assembly_refs)
        r == ResourcesLoop(tbl.manifest_resource, nfiles, nasm)
    IN  IF r.st # "ok" THEN r
        ELSE LET e == ExportsLoop(tbl.exported_type, nfiles, nasm) IN
             IF e.st # "ok" THEN e
             ELSE IF Len(tbl.module) = 0 THEN Throw
             ELSE Done([sh EXCEPT !.files = [k \in 1..nfiles |-> Cell],
                                  !.resources = r.v,
                                  !.exports = e.v,
                                  !.module = Some(Cell),
                                  !.module_refs = [k \in 1..Len(tbl.module_ref) |-> Cell]])

(***************************************************************************)
(* type references.                                                        *)
(***************************************************************************)
\* A search that looks at the name alone.
FindExportByName(exps, name, namespace) ==
    IF \E k \in 1..Len(exps) : exps[k].name = name
    THEN (CHOOSE k \in 1..Len(exps) :
              /\ exps[k].name = name
              /\ \A j \in 1..(k - 1) : exps[j].name # name) - 1
    ELSE -1

\* exports.iter().find(name and namespace equal): the position, or -1.
FindExport(exps, name, namespace) ==
    LET found(k) == exps[k].name = name /\ exps[k].namespace = namespace IN
    IF \E k \in 1..Len(exps) : found(k)
    THEN (CHOOSE k \in 1..Len(exps) : found(k) /\ \A j \in 1..(k - 1) : ~found(j)) - 1
    ELSE -1

TypeRefOne(r, sh, type_ref_len) ==
    LET scope == r.resolution_scope IN
    IF scope.tag = "Module"
    THEN Done([scope |-> [kind |-> "CurrentModule", at |-> Handle("None", 0)], attributes |-> <<>>])
    ELSE IF scope.tag = "ModuleRef"
    THEN IF Underflows(scope.row) THEN Panic
         ELSE IF InVec(sh.module_refs, Sub1(scope.row))
              THEN Done([scope |-> [kind |-> "ExternalModule", at |-> Handle("ModuleRef", Sub1(scope.row))],
                         attributes |-> <<>>])
              ELSE Throw
    ELSE IF scope.tag = "AssemblyRef"
    THEN IF Underflows(scope.row) THEN Panic
         ELSE IF InVec(sh.assembly_refs, Sub1(scope.row))
              THEN Done([scope |-> [kind |-> "Assembly", at |-> Handle("AssemblyRef", Sub1(scope.row))],
                         attributes |-> <<>>])
              ELSE Throw
    ELSE IF scope.tag = "TypeRef"
    THEN IF Underflows(scope.row) THEN Panic
         ELSE IF Sub1(scope.row) < type_ref_len
              THEN Done([scope |-> [kind |-> "Nested", at |-> Handle("Index", Sub1(scope.row))],
                         attributes |-> <<>>])
              ELSE Throw
    ELSE LET e == FindExport(sh.exports, r.name, r.namespace) IN
         IF e >= 0
         THEN Done([scope |-> [kind |-> "Exported", at |-> Handle("ExportedType", e)], attributes |-> <<>>])
         ELSE Throw

TypeRefsPass(rows, sh) ==
    LET F[k \in 0..Len(rows)] ==
            IF k = 0 THEN Done(<<>>)
            ELSE LET prev == F[k - 1] IN
                 IF prev.st # "ok" THEN prev
                 ELSE LET one == TypeRefOne(rows[k], sh, Len(rows)) IN
                      IF one.st # "ok" THEN one ELSE Done(Append(prev.v, one.v))
    IN  F[Len(rows)]

(***************************************************************************)
(* interface implementations.                                              *)
(***************************************************************************)
InterfaceOne(acc, i) ==
    IF Underflows(i.class) THEN Panic
    ELSE LET idx == Sub1(i.class) IN
         IF ~InVec(acc.types, idx) THEN Throw
         ELSE LET pos == Len(At(acc.types, idx).implements) IN
              Done([types |-> [acc.types EXCEPT ![idx + 1].implements =
                                   Append(@, [attributes |-> <<>>])],
                    idxs |-> Append(acc.idxs, <<idx, pos>>)])

InterfacesPass(tys, rows) ==
    LET F[k \in 0..Len(rows)] ==
            IF k = 0 THEN Done([types |-> tys, idxs |-> <<>>])
            ELSE LET prev == F[k - 1] IN
                 IF prev.st # "ok" THEN prev ELSE InterfaceOne(prev.v, rows[k])
    IN  F[Len(rows)]

(***************************************************************************)
(* fields (per type, in range order) and the lookup fields[].              *)
(***************************************************************************)
\* The (type_idx, row) pairs of the owned ranges, in iteration order.
OwnedPairs(owned) ==
    LET F[k \in 0..Len(owned)] ==
            IF k = 0 THEN <<>>
            ELSE F[k - 1] \o [j \in 1..Len(RangeRows(owned[k])) |->
                                  <<k - 1, RangeRows(owned[k])[j]>>]
    IN  F[Len(owned)]

AccessibilityMask == 8
AccessibilityInvalid == 7

\* member_accessibility: flags & 0x7 = 0x7 has no meaning.
BadAccessibility(flags) == flags % AccessibilityMask = AccessibilityInvalid

NewField(f_idx) ==
    [row |-> f_idx, offset |-> None, start_of_initial_value |-> None,
     pinvoke |-> None, marshal |-> None, default |-> None, attributes |-> <<>>]

\* A lookup Vec under construction: <<>> marks a slot not written yet.
Unwritten(len) == [k \in 1..len |-> <<>>]

FieldsOne(acc, type_idx, f_idx, f) ==
    IF BadAccessibility(f.flags) THEN Throw
    ELSE LET pos == Len(At(acc.types, type_idx).fields) IN
         Done([types |-> [acc.types EXCEPT ![type_idx + 1].fields = Append(@, NewField(f_idx))],
               lookup |-> SetAt(acc.lookup, f_idx, <<type_idx, pos>>)])

FieldsPass(tys, owned, rows) ==
    LET pairs == OwnedPairs(owned)
        F[k \in 0..Len(pairs)] ==
            IF k = 0 THEN Done([types |-> tys, lookup |-> Unwritten(Len(rows))])
            ELSE LET prev == F[k - 1] IN
                 IF prev.st # "ok" THEN prev
                 ELSE FieldsOne(prev.v, pairs[k][1], pairs[k][2], At(rows, pairs[k][2]))
    IN  F[Len(pairs)]

\* The Vec as later passes see it: a slot never written holds junk.
Allocated(lookup, junk) ==
    [k \in 1..Len(lookup) |-> IF lookup[k] = <<>> THEN junk ELSE lookup[k]]

\* get_field!: types[type_idx].fields[internal_idx], a panic when out of bounds.
HasField(tys, at) == InVec(tys, at[1]) /\ InVec(At(tys, at[1]).fields, at[2])

(***************************************************************************)
(* field layout, field RVA.                                                *)
(***************************************************************************)
\* A field layout pass in which the first offset given to a field stays.
FieldLayoutKeepFirst(tys, flds, layout) ==
    IF Underflows(layout.field) THEN Panic
    ELSE LET idx == Sub1(layout.field) IN
         IF ~InVec(flds, idx) THEN Throw
         ELSE LET at == At(flds, idx) IN
              IF ~HasField(tys, at) THEN Panic
              ELSE IF IsSome(At(At(tys, at[1]).fields, at[2]).offset) THEN Done(tys)
              ELSE Done([tys EXCEPT ![at[1] + 1].fields[at[2] + 1].offset = Some(layout.offset)])

FieldLayoutOne(tys, flds, layout) ==
    IF Underflows(layout.field) THEN Panic
    ELSE LET idx == Sub1(layout.field) IN
         IF ~InVec(flds, idx) THEN Throw
         ELSE LET at == At(flds, idx) IN
              IF ~HasField(tys, at) THEN Panic
              ELSE Done([tys EXCEPT ![at[1] + 1].fields[at[2] + 1].offset = Some(layout.offset)])

FieldLayoutPass(tys, flds, rows) ==
    LET F[k \in 0..Len(rows)] ==
            IF k = 0 THEN Done(tys)
            ELSE LET prev == F[k - 1] IN
                 IF prev.st # "ok" THEN prev ELSE FieldLayoutOne(prev.v, flds, rows[k])
    IN  F[Len(rows)]

\* rva.mapped: whether raw_rva finds the address in a section of the image.
FieldRvaOne(tys, flds, rva) ==
    IF Underflows(rva.field) THEN Panic
    ELSE LET idx == Sub1(rva.field) IN
         IF ~InVec(flds, idx) THEN Throw
         ELSE IF ~rva.mapped THEN Throw
         ELSE LET at == At(flds, idx) IN
              IF ~HasField(tys, at) THEN Panic
              ELSE Done([tys EXCEPT ![at[1] + 1].fields[at[2] + 1].start_of_initial_value =
                             Some(rva.rva)])

FieldRvaPass(tys, flds, rows) ==
    LET F[k \in 0..Len(rows)] ==
            IF k = 0 THEN Done(tys)
            ELSE LET prev == F[k - 1] IN
                 IF prev.st # "ok" THEN prev ELSE FieldRvaOne(prev.v, flds, rows[k])
    IN  F[Len(rows)]

(***************************************************************************)
(* methods (per type, in range order), the lookup methods[] and the owned  *)
(* parameter ranges.                                                       *)
(***************************************************************************)
CodeTypeMask == 4
CodeTypeOPTIL == 2

NewMethod(m_idx, num_method_params) ==
    [row |-> m_idx, generic_parameters |-> <<>>,
     parameter_metadata |-> [k \in 1..(num_method_params + 1) |-> None],
     pinvoke |-> None, security |-> None, attributes |-> <<>>, body |-> None]

MethodsOne(acc, type_idx, m_idx, tbl) ==
    LET m == At(tbl.method_def, m_idx) IN
    IF BadAccessibility(m.flags) THEN Throw
    ELSE IF m.impl_flags % CodeTypeMask = CodeTypeOPTIL THEN Throw
    ELSE LET pos == Len(At(acc.types, type_idx).methods)
             r == RangeIndex(Column(tbl.method_def, "param_list"), m_idx, Len(tbl.param))
         IN  IF r.st # "ok" THEN r
             ELSE Done([types |-> [acc.types EXCEPT ![type_idx + 1].methods =
                                       Append(@, NewMethod(m_idx, m.num_params))],
                        lookup |-> SetAt(acc.lookup, m_idx, MethodIndex(type_idx, Method(pos))),
                        owned_params |-> Append(acc.owned_params, [m_idx |-> m_idx, range |-> r.v])])

MethodsPass(tys, owned, tbl) ==
    LET pairs == OwnedPairs(owned)
        F[k \in 0..Len(pairs)] ==
            IF k = 0 THEN Done([types |-> tys, lookup |-> Unwritten(Len(tbl.method_def)),
                                owned_params |-> <<>>])
            ELSE LET prev == F[k - 1] IN
                 IF prev.st # "ok" THEN prev
                 ELSE MethodsOne(prev.v, pairs[k][1], pairs[k][2], tbl)
    IN  F[Len(pairs)]

\* get_method!: types[parent_type].methods[i] for a member Method(i); any other
\* member is the unreachable!() arm, an index out of bounds a panic.
HasMethod(tys, mi) ==
    /\ mi.member.kind = "Method"
    /\ InVec(tys, mi.parent_type)
    /\ InVec(At(tys, mi.parent_type).methods, mi.member.idx)

(***************************************************************************)
(* ImplMap (P/Invoke).                                                     *)
(***************************************************************************)
CallConvMask == 1792
CallConvUnit == 256
CallConvPlatformapi == 1
CallConvFastcall == 5

\* mapping_flags & 0x700 must be one of 0x100 .. 0x500.
BadCallingConvention(mapping_flags) ==
    LET cc == (mapping_flags % (CallConvMask + CallConvUnit)) \div CallConvUnit IN
    cc < CallConvPlatformapi \/ cc > CallConvFastcall

ImplMapOne(tys, flds, meths, nmodrefs, i, row) ==
    IF BadCallingConvention(i.mapping_flags) THEN Throw
    ELSE IF Underflows(i.import_scope) THEN Panic
    ELSE IF ~(Sub1(i.import_scope) < nmodrefs) THEN Throw
    ELSE LET value == Some([row |-> row, import_scope |-> Handle("ModuleRef", Sub1(i.import_scope))])
             fwd == i.member_forwarded
         IN  IF fwd.tag = "Field"
             THEN IF Underflows(fwd.row) THEN Panic
                  ELSE IF ~InVec(flds, Sub1(fwd.row)) THEN Throw
                  ELSE LET at == At(flds, Sub1(fwd.row)) IN
                       IF ~HasField(tys, at) THEN Panic
                       ELSE Done([tys EXCEPT ![at[1] + 1].fields[at[2] + 1].pinvoke = value])
             ELSE IF fwd.tag = "MethodDef"
             THEN IF Underflows(fwd.row) THEN Panic
                  ELSE IF ~InVec(meths, Sub1(fwd.row)) THEN Throw
                  ELSE LET mi == At(meths, Sub1(fwd.row)) IN
                       IF ~HasMethod(tys, mi) THEN Panic
                       ELSE Done([tys EXCEPT ![mi.parent_type + 1].methods[mi.member.idx + 1].pinvoke = value])
             ELSE Throw

ImplMapPass(tys, flds, meths, nmodrefs, rows) ==
    LET F[k \in 0..Len(rows)] ==
            IF k = 0 THEN Done(tys)
            ELSE LET prev == F[k - 1] IN
                 IF prev.st # "ok" THEN prev
                 ELSE ImplMapOne(prev.v, flds, meths, nmodrefs, rows[k], k - 1)
    IN  F[Len(rows)]

(***************************************************************************)
(* DeclSecurity.                                                           *)
(***************************************************************************)
SecurityOne(acc, meths, s, idx) ==
    LET value == Some([row |-> idx, attributes |-> <<>>]) IN
    IF s.parent.tag = "TypeDef"
    THEN IF Underflows(s.parent.row) THEN Panic
         ELSE IF ~InVec(acc.types, Sub1(s.parent.row)) THEN Throw
         ELSE Done([acc EXCEPT !.types[Sub1(s.parent.row) + 1].security = value])
    ELSE IF s.parent.tag = "MethodDef"
    THEN IF Underflows(s.parent.row) THEN Panic
         ELSE IF ~InVec(meths, Sub1(s.parent.row)) THEN Throw
         ELSE LET mi == At(meths, Sub1(s.parent.row)) IN
              IF ~HasMethod(acc.types, mi) THEN Panic
              ELSE Done([acc EXCEPT !.types[mi.parent_type + 1].methods[mi.member.idx + 1].security = value])
    ELSE IF s.parent.tag = "Assembly"
    THEN IF IsSome(acc.assembly)
         THEN Done([acc EXCEPT !.assembly = Some([Unwrap(acc.assembly) EXCEPT !.security = value])])
         ELSE Throw
    ELSE Throw

SecurityPass(tys, asm, meths, rows) ==
    LET F[k \in 0..Len(rows)] ==
            IF k = 0 THEN Done([types |-> tys, assembly |-> asm])
            ELSE LET prev == F[k - 1] IN
                 IF prev.st # "ok" THEN prev
                 ELSE SecurityOne(prev.v, meths, rows[k], k - 1)
    IN  F[Len(rows)]

(***************************************************************************)
(* generic parameters and their constraints.                               *)
(***************************************************************************)
VarianceMask == 4
VarianceInvalid == 3

\* The variance decoded from flags & 0x3 (0x3 throws before this is used).
Variance(flags) ==
    IF flags % VarianceMask = 1 THEN "Covariant" ELSE "Invariant"

\* The filter_map over generic_param_constraint for generic parameter idx: the
\* rows whose owner is idx, in table order; c.owner.0 - 1 may underflow.
ConstraintUnderflow(constraints) ==
    \E k \in 1..Len(constraints) : Underflows(constraints[k].owner)

OwnedConstraints(constraints, idx) ==
    LET F[k \in 0..Len(constraints)] ==
            IF k = 0 THEN <<>>
            ELSE IF Sub1(constraints[k].owner) = idx
                 THEN Append(F[k - 1], [row |-> k - 1, attributes |-> <<>>])
                 ELSE F[k - 1]
    IN  F[Len(constraints)]

\* make_generic!: the Generic, or the throw on variance 0x3, or the panic.
MakeGeneric(p, idx, constraints) ==
    IF p.flags % VarianceMask = VarianceInvalid THEN Throw
    ELSE IF ConstraintUnderflow(constraints) THEN Panic
    ELSE Done([row |-> idx, sequence |-> p.number, variance |-> Variance(p.flags),
               type_constraints |-> OwnedConstraints(constraints, idx),
               attributes |-> <<>>])

\* constraint_map.insert(original, (idx, internal)) for each owned constraint.
InsertConstraints(cmap, g) ==
    [c \in 1..Len(cmap) |->
        IF \E j \in 1..Len(g.type_constraints) : g.type_constraints[j].row = c - 1
        THEN <<g.row, (CHOOSE j \in 1..Len(g.type_constraints) :
                           g.type_constraints[j].row = c - 1) - 1>>
        ELSE cmap[c]]

GenericOne(acc, meths, p, idx, constraints) ==
    IF p.owner.tag = "TypeDef"
    THEN IF Underflows(p.owner.row) THEN Panic
         ELSE LET t_idx == Sub1(p.owner.row) IN
              IF ~InVec(acc.types, t_idx) THEN Throw
              ELSE LET g == MakeGeneric(p, idx, constraints) IN
                   IF g.st # "ok" THEN g
                   ELSE Done([types |-> [acc.types EXCEPT ![t_idx + 1].generic_parameters =
                                             Append(@, g.v)],
                              constraint_map |-> InsertConstraints(acc.constraint_map, g.v)])
    ELSE IF p.owner.tag = "MethodDef"
    THEN IF Underflows(p.owner.row) THEN Panic
         ELSE LET m_idx == Sub1(p.owner.row) IN
              IF ~InVec(meths, m_idx) THEN Throw
              ELSE LET mi == At(meths, m_idx) IN
                   IF ~HasMethod(acc.types, mi) THEN Panic
                   ELSE LET g == MakeGeneric(p, idx, constraints) IN
                        IF g.st # "ok" THEN g
                        ELSE Done([types |-> [acc.types EXCEPT
                                       ![mi.parent_type + 1].methods[mi.member.idx + 1].generic_parameters =
                                             Append(@, g.v)],
                                   constraint_map |-> InsertConstraints(acc.constraint_map, g.v)])
    ELSE Throw

GenericParamsPass(tys, meths, tbl) ==
    LET rows == tbl.generic_param
        F[k \in 0..Len(rows)] ==
            IF k = 0 THEN Done([types |-> tys,
                                constraint_map |-> Unwritten(Len(tbl.generic_param_constraint))])
            ELSE LET prev == F[k - 1] IN
                 IF prev.st # "ok" THEN prev
                 ELSE GenericOne(prev.v, meths, rows[k], k - 1, tbl.generic_param_constraint)
    IN  F[Len(rows)]

\* sort_by_key(|p| p.sequence): a stable sort.
InsertBySequence(sorted, g) ==
    LET n == Cardinality({k \in 1..Len(sorted) : sorted[k].sequence <= g.sequence}) IN
    [k \in 1..(Len(sorted) + 1) |->
        IF k <= n THEN sorted[k] ELSE IF k = n + 1 THEN g ELSE sorted[k - 1]]

\* The parameters left in table order.
NotSorted(gs) == gs

SortBySequence(gs) ==
    LET F[k \in 0..Len(gs)] ==
            IF k = 0 THEN <<>> ELSE InsertBySequence(F[k - 1], gs[k])
    IN  F[Len(gs)]

SortMethodGenerics(ms) ==
    [m \in 1..Len(ms) |->
        [ms[m] EXCEPT !.generic_parameters = SortBySequence(ms[m].generic_parameters)]]

GenericSortPass(tys) ==
    [t \in 1..Len(tys) |->
        [tys[t] EXCEPT !.generic_parameters = SortBySequence(tys[t].generic_parameters),
                       !.methods = SortMethodGenerics(tys[t].methods)]]

(***************************************************************************)
(* params: fills parameter_metadata[param.sequence] of the owning method.  *)
(***************************************************************************)
\* The (m_idx, p_idx) pairs of owned_params, in iteration order.
ParamPairs(owned) ==
    LET F[k \in 0..Len(owned)] ==
            IF k = 0 THEN <<>>
            ELSE F[k - 1] \o [j \in 1..Len(RangeRows(owned[k].range)) |->
                                  <<owned[k].m_idx, RangeRows(owned[k].range)[j]>>]
    IN  F[Len(owned)]

NewParam(p_idx) == [row |-> p_idx, marshal |-> None, default |-> None, attributes |-> <<>>]

ParamsOne(acc, meths, m_idx, p_idx, param) ==
    LET mi == At(meths, m_idx)
        meta_idx == param.sequence
    IN  IF ~HasMethod(acc.types, mi) THEN Panic
        ELSE IF ~InVec(At(At(acc.types, mi.parent_type).methods, mi.member.idx).parameter_metadata,
                       meta_idx)
             THEN Panic
        ELSE Done([types |-> [acc.types EXCEPT
                       ![mi.parent_type + 1].methods[mi.member.idx + 1].parameter_metadata[meta_idx + 1] =
                            Some(NewParam(p_idx))],
                   lookup |-> SetAt(acc.lookup, p_idx, <<m_idx, meta_idx>>)])

ParamsPass(tys, meths, owned, rows) ==
    LET pairs == ParamPairs(owned)
        F[k \in 0..Len(pairs)] ==
            IF k = 0 THEN Done([types |-> tys, lookup |-> Unwritten(Len(rows))])
            ELSE LET prev == F[k - 1] IN
                 IF prev.st # "ok" THEN prev
                 ELSE ParamsOne(prev.v, meths, pairs[k][1], pairs[k][2], At(rows, pairs[k][2]))
    IN  F[Len(pairs)]

\* get_method!(methods[m_idx]).parameter_metadata[p_idx].as_mut().unwrap()
HasParam(tys, meths, at) ==
    /\ InVec(meths, at[1])
    /\ HasMethod(tys, At(meths, at[1]))
    /\ LET mi == At(meths, at[1])
           meta == At(At(tys, mi.parent_type).methods, mi.member.idx).parameter_metadata
       IN  InVec(meta, at[2]) /\ IsSome(At(meta, at[2]))

SetParam(tys, meths, at, key, value) ==
    LET mi == At(meths, at[1]) IN
    [tys EXCEPT ![mi.parent_type + 1].methods[mi.member.idx + 1].parameter_metadata[at[2] + 1] =
        Some([Unwrap(@) EXCEPT ![key] = value])]

(***************************************************************************)
(* field marshal.                                                          *)
(***************************************************************************)
FieldMarshalOne(tys, flds, meths, prms, marshal, row) ==
    LET value == Some(row) IN
    IF marshal.parent.tag = "Field"
    THEN IF Underflows(marshal.parent.row) THEN Panic
         ELSE IF ~InVec(flds, Sub1(marshal.parent.row)) THEN Throw
         ELSE LET at == At(flds, Sub1(marshal.parent.row)) IN
              IF ~HasField(tys, at) THEN Panic
              ELSE Done([tys EXCEPT ![at[1] + 1].fields[at[2] + 1].marshal = value])
    ELSE IF marshal.parent.tag = "Param"
    THEN IF Underflows(marshal.parent.row) THEN Panic
         ELSE IF ~InVec(prms, Sub1(marshal.parent.row)) THEN Throw
         ELSE LET at == At(prms, Sub1(marshal.parent.row)) IN
              IF ~HasParam(tys, meths, at) THEN Panic
              ELSE Done(SetParam(tys, meths, at, "marshal", value))
    ELSE Throw

FieldMarshalPass(tys, flds, meths, prms, rows) ==
    LET F[k \in 0..Len(rows)] ==
            IF k = 0 THEN Done(tys)
            ELSE LET prev == F[k - 1] IN
                 IF prev.st # "ok" THEN prev
                 ELSE FieldMarshalOne(prev.v, flds, meths, prms, rows[k], k - 1)
    IN  F[Len(rows)]

(***************************************************************************)
(* properties (PropertyMap ranges) and the lookup properties[].            *)
(***************************************************************************)
NewProperty(p_idx) ==
    [row |-> p_idx, getter |-> None, setter |-> None, other |-> <<>>,
     default |-> None, attributes |-> <<>>]

PropertyMapOne(acc, tbl, map_idx) ==
    LET map == At(tbl.property_map, map_idx) IN
    IF Underflows(map.parent) THEN Panic
    ELSE LET type_idx == Sub1(map.parent) IN
         IF ~InVec(acc.types, type_idx) THEN Throw
         ELSE LET r == RangeIndex(Column(tbl.property_map, "property_list"), map_idx,
                                  Len(tbl.property)) IN
              IF r.st # "ok" THEN r
              ELSE LET rows == RangeRows(r.v)
                       base == Len(At(acc.types, type_idx).properties)
                   IN  Done([types |-> [acc.types EXCEPT ![type_idx + 1].properties =
                                            @ \o [j \in 1..Len(rows) |-> NewProperty(rows[j])]],
                             lookup |-> [g \in 1..Len(acc.lookup) |->
                                            IF g - 1 >= r.v.start /\ g - 1 < r.v.end
                                            THEN <<type_idx, base + (g - 1 - r.v.start)>>
                                            ELSE acc.lookup[g]]])

PropertiesPass(tys, tbl) ==
    LET F[k \in 0..Len(tbl.property_map)] ==
            IF k = 0 THEN Done([types |-> tys, lookup |-> Unwritten(Len(tbl.property))])
            ELSE LET prev == F[k - 1] IN
                 IF prev.st # "ok" THEN prev ELSE PropertyMapOne(prev.v, tbl, k - 1)
    IN  F[Len(tbl.property_map)]

HasProperty(tys, at) == InVec(tys, at[1]) /\ InVec(At(tys, at[1]).properties, at[2])

(***************************************************************************)
(* constants (the literal's decoding is not modelled).                     *)
(***************************************************************************)
ConstantOne(tys, flds, meths, prms, props, c, idx) ==
    LET value == Some(idx) IN
    IF c.parent.tag = "Field"
    THEN IF Underflows(c.parent.row) THEN Panic
         ELSE IF ~InVec(flds, Sub1(c.parent.row)) THEN Throw
         ELSE LET at == At(flds, Sub1(c.parent.row)) IN
              IF ~HasField(tys, at) THEN Panic
              ELSE Done([tys EXCEPT ![at[1] + 1].fields[at[2] + 1].default = value])
    ELSE IF c.parent.tag = "Param"
    THEN IF Underflows(c.parent.row) THEN Panic
         ELSE IF ~InVec(prms, Sub1(c.parent.row)) THEN Throw
         ELSE LET at == At(prms, Sub1(c.parent.row)) IN
              IF ~HasParam(tys, meths, at) THEN Panic
              ELSE Done(SetParam(tys, meths, at, "default", value))
    ELSE IF c.parent.tag = "Property"
    THEN IF Underflows(c.parent.row) THEN Panic
         ELSE IF ~InVec(props, Sub1(c.parent.row)) THEN Throw
         ELSE LET at == At(props, Sub1(c.parent.row)) IN
              IF ~HasProperty(tys, at) THEN Panic
              ELSE Done([tys EXCEPT ![at[1] + 1].properties[at[2] + 1].default = value])
    ELSE Throw

ConstantsPass(tys, flds, meths, prms, props, rows) ==
    LET F[k \in 0..Len(rows)] ==
            IF k = 0 THEN Done(tys)
            ELSE LET prev == F[k - 1] IN
                 IF prev.st # "ok" THEN prev
                 ELSE ConstantOne(prev.v, flds, meths, prms, props, rows[k], k - 1)
    IN  F[Len(rows)]

(***************************************************************************)
(* extract_method!: take the method a lookup entry designates out of       *)
(* parent's top-level list, renumbering the entries above it.              *)
(***************************************************************************)
\* The lookup after the renumbering loop.
Renumber(meths, idx) ==
    [g \in 1..Len(meths) |->
        IF /\ meths[g].parent_type = idx.parent_type
           /\ meths[g].member.kind = "Method"
           /\ meths[g].member.idx > idx.member.idx
        THEN [meths[g] EXCEPT !.member.idx = @ - 1]
        ELSE meths[g]]

\* parent is the position of the type whose list loses the element.
ExtractMethod(tys, meths, parent, idx) ==
    IF idx.member.kind # "Method" THEN Panic           \* unreachable!()
    ELSE IF ~InVec(At(tys, parent).methods, idx.member.idx) THEN Panic   \* Vec::remove
    ELSE Done([types |-> [tys EXCEPT ![parent + 1].methods = RemoveAt(@, idx.member.idx)],
               methods |-> Renumber(meths, idx),
               method |-> At(At(tys, parent).methods, idx.member.idx)])

(***************************************************************************)
(* events (EventMap ranges), their add and remove listeners, events[].     *)
(***************************************************************************)
SemSetter == 1
SemGetter == 2
SemOther == 4
SemAddOn == 8
SemRemoveOn == 16
SemFire == 32

\* The closure of get_listener!'s position(): row s is the listener of e_idx.
IsListener(s, flag, e_idx) ==
    HasBit(s.semantics, flag) /\ s.association.tag = "Event" /\ e_idx = Sub1(s.association.row)

\* The first listener row (1-based), 0 when there is none.
ListenerPosition(sems, flag, e_idx) ==
    IF \E k \in 1..Len(sems) : IsListener(sems[k], flag, e_idx)
    THEN CHOOSE k \in 1..Len(sems) :
             /\ IsListener(sems[k], flag, e_idx)
             /\ \A j \in 1..(k - 1) : ~IsListener(sems[j], flag, e_idx)
    ELSE 0

\* e - 1 underflows on a row the search visits.
ListenerUnderflow(sems, flag, e_idx) ==
    LET pos == ListenerPosition(sems, flag, e_idx) IN
    \E k \in 1..Len(sems) :
        /\ pos = 0 \/ k < pos
        /\ HasBit(sems[k].semantics, flag)
        /\ sems[k].association.tag = "Event"
        /\ Underflows(sems[k].association.row)

ListenerMember(flag, internal_idx) ==
    IF flag = SemAddOn THEN EventAdd(internal_idx) ELSE EventRemove(internal_idx)

\* get_listener!: acc is [types, methods, sems]; the outcome adds the method.
GetListener(acc, type_idx, e_idx, internal_idx, flag, method_len) ==
    IF ListenerUnderflow(acc.sems, flag, e_idx) THEN Panic
    ELSE LET pos == ListenerPosition(acc.sems, flag, e_idx) IN
         IF pos = 0 THEN Throw
         ELSE LET sem == acc.sems[pos] IN
              IF Underflows(sem.method) THEN Panic
              ELSE LET m_idx == Sub1(sem.method) IN
                   IF ~(m_idx < method_len) THEN Throw
                   ELSE LET x == ExtractMethod(acc.types, acc.methods, type_idx,
                                               At(acc.methods, m_idx)) IN
                        IF x.st # "ok" THEN x
                        ELSE Done([types |-> x.v.types,
                                   methods |-> [x.v.methods EXCEPT ![m_idx + 1].member =
                                                    ListenerMember(flag, internal_idx)],
                                   sems |-> RemoveAt(acc.sems, pos - 1),
                                   method |-> x.v.method])

NewEvent(e_idx, add, remove) ==
    [row |-> e_idx, add_listener |-> add, remove_listener |-> remove,
     raise_event |-> None, other |-> <<>>, attributes |-> <<>>]

\* One event of a map: acc is [types, methods, sems, lookup].
EventOne(acc, type_idx, e_idx, method_len) ==
    LET internal_idx == Len(At(acc.types, type_idx).events)
        add == GetListener(acc, type_idx, e_idx, internal_idx, SemAddOn, method_len)
    IN  IF add.st # "ok" THEN add
        ELSE LET rem == GetListener(add.v, type_idx, e_idx, internal_idx, SemRemoveOn,
                                    method_len) IN
             IF rem.st # "ok" THEN rem
             ELSE Done([types |-> [rem.v.types EXCEPT ![type_idx + 1].events =
                                       Append(@, NewEvent(e_idx, add.v.method, rem.v.method))],
                        methods |-> rem.v.methods,
                        sems |-> rem.v.sems,
                        lookup |-> SetAt(acc.lookup, e_idx, <<type_idx, internal_idx>>)])

EventMapOne(acc, tbl, map_idx) ==
    LET map == At(tbl.event_map, map_idx) IN
    IF Underflows(map.parent) THEN Panic
    ELSE LET type_idx == Sub1(map.parent) IN
         IF ~InVec(acc.types, type_idx) THEN Throw
         ELSE LET r == RangeIndex(Column(tbl.event_map, "event_list"), map_idx,
                                  Len(tbl.event)) IN
              IF r.st # "ok" THEN r
              ELSE LET rows == RangeRows(r.v)
                       F[k \in 0..Len(rows)] ==
                           IF k = 0 THEN Done(acc)
                           ELSE LET prev == F[k - 1] IN
                                IF prev.st # "ok" THEN prev
                                ELSE EventOne(prev.v, type_idx, rows[k], Len(tbl.method_def))
                   IN  F[Len(rows)]

EventsPass(tys, meths, tbl) ==
    LET F[k \in 0..Len(tbl.event_map)] ==
            IF k = 0 THEN Done([types |-> tys, methods |-> meths,
                                sems |-> tbl.method_semantics,
                                lookup |-> Unwritten(Len(tbl.event))])
            ELSE LET prev == F[k - 1] IN
                 IF prev.st # "ok" THEN prev ELSE EventMapOne(prev.v, tbl, k - 1)
    IN  F[Len(tbl.event_map)]

HasEvent(tys, at) == InVec(tys, at[1]) /\ InVec(At(tys, at[1]).events, at[2])

(***************************************************************************)
(* the remaining MethodSemantics rows.                                     *)
(***************************************************************************)
\* The Event arm: parent is the method's type, internal_idx the event's position.
SemanticsEvent(tys, meths, parent, raw_idx, internal_idx, s, new_meth) ==
    IF HasBit(s.semantics, SemFire)
    THEN [types |-> [tys EXCEPT ![parent + 1].events[internal_idx + 1].raise_event =
                         Some(new_meth)],
          methods |-> [meths EXCEPT ![raw_idx + 1].member = EventRaise(internal_idx)]]
    ELSE IF HasBit(s.semantics, SemOther)
    THEN [types |-> [tys EXCEPT ![parent + 1].events[internal_idx + 1].other =
                         Append(@, new_meth)],
          methods |-> [meths EXCEPT ![raw_idx + 1].member =
                           EventOther(internal_idx,
                                      Len(At(At(tys, parent).events, internal_idx).other))]]
    ELSE [types |-> tys, methods |-> meths]

\* The Property arm.
SemanticsProperty(tys, meths, parent, raw_idx, internal_idx, s, new_meth) ==
    IF HasBit(s.semantics, SemSetter)
    THEN [types |-> [tys EXCEPT ![parent + 1].properties[internal_idx + 1].setter =
                         Some(new_meth)],
          methods |-> [meths EXCEPT ![raw_idx + 1].member = PropertySetter(internal_idx)]]
    ELSE IF HasBit(s.semantics, SemGetter)
    THEN [types |-> [tys EXCEPT ![parent + 1].properties[internal_idx + 1].getter =
                         Some(new_meth)],
          methods |-> [meths EXCEPT ![raw_idx + 1].member = PropertyGetter(internal_idx)]]
    ELSE IF HasBit(s.semantics, SemOther)
    THEN [types |-> [tys EXCEPT ![parent + 1].properties[internal_idx + 1].other =
                         Append(@, new_meth)],
          methods |-> [meths EXCEPT ![raw_idx + 1].member =
                           PropertyOther(internal_idx,
                                         Len(At(At(tys, parent).properties, internal_idx).other))]]
    ELSE [types |-> tys, methods |-> meths]

\* One row: acc is [types, methods].
SemanticsOne(acc, props, evts, s) ==
    IF Underflows(s.method) THEN Panic
    ELSE LET raw_idx == Sub1(s.method) IN
         IF ~InVec(acc.methods, raw_idx) THEN Throw
         ELSE LET method_idx == At(acc.methods, raw_idx)
                  parent == method_idx.parent_type
              IN  IF ~InVec(acc.types, parent) THEN Panic
                  ELSE LET x == ExtractMethod(acc.types, acc.methods, parent, method_idx) IN
                       IF x.st # "ok" THEN x
                       ELSE IF s.association.tag = "Event"
                       THEN IF Underflows(s.association.row) THEN Panic
                            ELSE IF ~InVec(evts, Sub1(s.association.row)) THEN Throw
                            ELSE LET internal_idx == At(evts, Sub1(s.association.row))[2] IN
                                 IF ~InVec(At(x.v.types, parent).events, internal_idx) THEN Panic
                                 ELSE Done(SemanticsEvent(x.v.types, x.v.methods, parent,
                                                          raw_idx, internal_idx, s, x.v.method))
                       ELSE IF s.association.tag = "Property"
                       THEN IF Underflows(s.association.row) THEN Panic
                            ELSE IF ~InVec(props, Sub1(s.association.row)) THEN Throw
                            ELSE LET internal_idx == At(props, Sub1(s.association.row))[2] IN
                                 IF ~InVec(At(x.v.types, parent).properties, internal_idx) THEN Panic
                                 ELSE Done(SemanticsProperty(x.v.types, x.v.methods, parent,
                                                             raw_idx, internal_idx, s, x.v.method))
                       ELSE Throw

MethodSemanticsPass(tys, meths, props, evts, rows) ==
    LET F[k \in 0..Len(rows)] ==
            IF k = 0 THEN Done([types |-> tys, methods |-> meths])
            ELSE LET prev == F[k - 1] IN
                 IF prev.st # "ok" THEN prev
                 ELSE SemanticsOne(prev.v, props, evts, rows[k])
    IN  F[Len(rows)]

(***************************************************************************)
(* member references: each row is tried as a field reference, then as a    *)
(* method reference.  r.field_sig / r.method_sig: whether the signature    *)
(* blob parses as a FieldSig / a MethodRefSig.                             *)
(***************************************************************************)
\* The outcome of one row in one of the two filter_maps: "keep", "skip",
\* "err" or "panic".
FieldRefRow(r, nmodrefs) ==
    IF ~r.field_sig THEN "skip"
    ELSE IF r.class.tag \in {"TypeDef", "TypeRef", "TypeSpec"} THEN "keep"
    ELSE IF r.class.tag = "ModuleRef"
         THEN IF Underflows(r.class.row) THEN "panic"
              ELSE IF Sub1(r.class.row) < nmodrefs THEN "keep" ELSE "err"
    ELSE "skip"

MethodRefRow(r, nmodrefs, nmethods) ==
    IF ~r.method_sig THEN "skip"
    ELSE IF r.class.tag \in {"TypeDef", "TypeRef", "TypeSpec"} THEN "keep"
    ELSE IF r.class.tag = "ModuleRef"
         THEN IF Underflows(r.class.row) THEN "panic"
              ELSE IF Sub1(r.class.row) < nmodrefs THEN "keep" ELSE "err"
    ELSE IF r.class.tag = "MethodDef"
         THEN IF Underflows(r.class.row) THEN "panic"
              ELSE IF Sub1(r.class.row) < nmethods THEN "keep" ELSE "err"
    ELSE "err"

\* The rows kept, in table order, and the first failure if any.
KeptRows(verdicts) ==
    LET F[k \in 0..Len(verdicts)] ==
            IF k = 0 THEN Done(<<>>)
            ELSE LET prev == F[k - 1] IN
                 IF prev.st # "ok" THEN prev
                 ELSE IF verdicts[k] = "err" THEN Throw
                 ELSE IF verdicts[k] = "panic" THEN Panic
                 ELSE IF verdicts[k] = "keep" THEN Done(Append(prev.v, k - 1))
                 ELSE prev
    IN  F[Len(verdicts)]

\* orig -> current, <<>> where the row was not kept.
RefMap(kept, len) ==
    [o \in 1..len |->
        IF \E c \in 1..Len(kept) : kept[c] = o - 1
        THEN <<(CHOOSE c \in 1..Len(kept) : kept[c] = o - 1) - 1>>
        ELSE <<>>]

MemberRefsPass(rows, meths, nmodrefs) ==
    LET f == KeptRows([k \in 1..Len(rows) |-> FieldRefRow(rows[k], nmodrefs)]) IN
    IF f.st # "ok" THEN f
    ELSE LET m == KeptRows([k \in 1..Len(rows) |->
                                MethodRefRow(rows[k], nmodrefs, Len(meths))]) IN
         IF m.st # "ok" THEN m
         ELSE Done([field_refs |-> [c \in 1..Len(f.v) |->
                                       [row |-> f.v[c], attributes |-> <<>>]],
                    field_map |-> RefMap(f.v, Len(rows)),
                    method_refs |-> [c \in 1..Len(m.v) |->
                                        [row |-> m.v[c], attributes |-> <<>>,
                                         parent |-> IF At(rows, m.v[c]).class.tag = "MethodDef"
                                                    THEN Some(At(meths, Sub1(At(rows, m.v[c]).class.row)))
                                                    ELSE None]],
                    method_map |-> RefMap(m.v, Len(rows))])

(***************************************************************************)
(* method overrides (MethodImpl).                                          *)
(***************************************************************************)
MethodImplOne(tys, i, row) ==
    IF Underflows(i.class) THEN Panic
    ELSE LET idx == Sub1(i.class) IN
         IF ~InVec(tys, idx) THEN Throw
         ELSE Done([tys EXCEPT ![idx + 1].overrides = Append(@, row)])

MethodImplPass(tys, rows) ==
    LET F[k \in 0..Len(rows)] ==
            IF k = 0 THEN Done(tys)
            ELSE LET prev == F[k - 1] IN
                 IF prev.st # "ok" THEN prev ELSE MethodImplOne(prev.v, rows[k], k - 1)
    IN  F[Len(rows)]

(***************************************************************************)
(* the Resolution and its entry point.                                     *)
(***************************************************************************)
Token(table, index) == [table |-> table, index |-> index]

\* A resolver that never records an entry point.
NoEntryPoint(tok, meths, nfiles) == Done(None)

EntryPoint(tok, meths, nfiles) ==
    IF tok.index = 0 THEN Done(None)
    ELSE LET entry_idx == tok.index - 1 IN
         IF tok.table = "MethodDef"
         THEN IF InVec(meths, entry_idx)
              THEN Done(Some([kind |-> "Method", method |-> At(meths, entry_idx),
                              file |-> Handle("None", 0)]))
              ELSE Throw
         ELSE IF tok.table = "File"
         THEN IF entry_idx < nfiles
              THEN Done(Some([kind |-> "File", method |-> MethodIndex(0, Method(0)),
                              file |-> Handle("File", entry_idx)]))
              ELSE Throw
         ELSE Throw

\* The Resolution: the lists it owns, as the handles of their elements.
HandlesOf(kind, cells) == [k \in 1..Len(cells) |-> Handle(kind, k - 1)]

ResolutionPass(tok, meths, sh) ==
    LET e == EntryPoint(tok, meths, Len(sh.files)) IN
    IF e.st # "ok" THEN e
    ELSE Done(Some([assembly_references |-> HandlesOf("AssemblyRef", sh.assembly_refs),
                    entry_point |-> e.v,
                    files |-> HandlesOf("File", sh.files),
                    manifest_resources |-> HandlesOf("ManifestResource", sh.resources),
                    module_references |-> HandlesOf("ModuleRef", sh.module_refs),
                    type_references |-> HandlesOf("TypeRef", sh.type_refs)]))

(***************************************************************************)
(* res[MethodIndex]: the method a lookup entry designates, in the          *)
(* top-level list or in the property or event slot it names.               *)
(***************************************************************************)
HasMethodAt(tys, mi) ==
    /\ InVec(tys, mi.parent_type)
    /\ LET t == At(tys, mi.parent_type)
           m == mi.member
       IN  IF m.kind = "Method" THEN InVec(t.methods, m.idx)
           ELSE IF m.kind \in {"PropertyGetter", "PropertySetter", "PropertyOther"}
           THEN /\ InVec(t.properties, m.idx)
                /\ IF m.kind = "PropertyGetter" THEN IsSome(At(t.properties, m.idx).getter)
                   ELSE IF m.kind = "PropertySetter" THEN IsSome(At(t.properties, m.idx).setter)
                   ELSE InVec(At(t.properties, m.idx).other, m.other)
           ELSE /\ InVec(t.events, m.idx)
                /\ IF m.kind = "EventRaise" THEN IsSome(At(t.events, m.idx).raise_event)
                   ELSE IF m.kind = "EventOther" THEN InVec(At(t.events, m.idx).other, m.other)
                   ELSE m.kind \in {"EventAdd", "EventRemove"}

MethodAt(tys, mi) ==
    LET t == At(tys, mi.parent_type)
        m == mi.member
    IN  IF m.kind = "Method" THEN At(t.methods, m.idx)
        ELSE IF m.kind = "PropertyGetter" THEN Unwrap(At(t.properties, m.idx).getter)
        ELSE IF m.kind = "PropertySetter" THEN Unwrap(At(t.properties, m.idx).setter)
        ELSE IF m.kind = "PropertyOther" THEN At(At(t.properties, m.idx).other, m.other)
        ELSE IF m.kind = "EventAdd" THEN At(t.events, m.idx).add_listener
        ELSE IF m.kind = "EventRemove" THEN At(t.events, m.idx).remove_listener
        ELSE IF m.kind = "EventRaise" THEN Unwrap(At(t.events, m.idx).raise_event)
        ELSE At(At(t.events, m.idx).other, m.other)

SetMethodAt(tys, mi, v) ==
    LET p == mi.parent_type + 1
        m == mi.member
        i == m.idx + 1
    IN  IF m.kind = "Method" THEN [tys EXCEPT ![p].methods[i] = v]
        ELSE IF m.kind = "PropertyGetter" THEN [tys EXCEPT ![p].properties[i].getter = Some(v)]
        ELSE IF m.kind = "PropertySetter" THEN [tys EXCEPT ![p].properties[i].setter = Some(v)]
        ELSE IF m.kind = "PropertyOther" THEN [tys EXCEPT ![p].properties[i].other[m.other + 1] = v]
        ELSE IF m.kind = "EventAdd" THEN [tys EXCEPT ![p].events[i].add_listener = v]
        ELSE IF m.kind = "EventRemove" THEN [tys EXCEPT ![p].events[i].remove_listener = v]
        ELSE IF m.kind = "EventRaise" THEN [tys EXCEPT ![p].events[i].raise_event = Some(v)]
        ELSE [tys EXCEPT ![p].events[i].other[m.other + 1] = v]

(***************************************************************************)
(* custom attributes.  acc is [types, shared, assembly, refs].             *)
(***************************************************************************)
\* The constructor: "ok", "err" or "panic".
AttrConstructor(a, meths, method_map) ==
    IF a.attr_type.tag = "MethodDef"
    THEN IF Underflows(a.attr_type.row) THEN "panic"
         ELSE IF InVec(meths, Sub1(a.attr_type.row)) THEN "ok" ELSE "err"
    ELSE IF a.attr_type.tag = "MemberRef"
    THEN IF Underflows(a.attr_type.row) THEN "panic"
         ELSE IF InVec(method_map, Sub1(a.attr_type.row))
                 /\ IsSome(At(method_map, Sub1(a.attr_type.row)))
              THEN "ok" ELSE "err"
    ELSE "err"

\* A push that loses the attribute.
LoseAttr(x, attr) == x

PushAttr(x, attr) == [x EXCEPT !.attributes = Append(@, attr)]

\* A parent that is a row of a Vec of the shared record.
AttrShared(acc, key, row, attr) ==
    IF Underflows(row) THEN Panic
    ELSE IF ~InVec(acc.shared[key], Sub1(row)) THEN Throw
    ELSE Done([acc EXCEPT !.shared[key][Sub1(row) + 1] = PushAttr(@, attr)])

\* A parent reached through a MethodIndex (res[m]).
AttrMethod(acc, mi, attr) ==
    IF ~HasMethodAt(acc.types, mi) THEN Panic
    ELSE Done([acc EXCEPT !.types = SetMethodAt(acc.types, mi,
                                                PushAttr(MethodAt(acc.types, mi), attr))])

\* do_at_generic!: the generic parameter at position g.number of its owner.
AttrGeneric(acc, meths, g, internal, attr) ==
    IF g.owner.tag = "TypeDef"
    THEN IF Underflows(g.owner.row) THEN Panic
         ELSE LET t == Sub1(g.owner.row) IN
              IF ~InVec(acc.types, t) \/ ~InVec(At(acc.types, t).generic_parameters, g.number)
              THEN Panic
              ELSE IF internal = None
              THEN Done([acc EXCEPT !.types[t + 1].generic_parameters[g.number + 1] =
                             PushAttr(@, attr)])
              ELSE IF ~InVec(At(At(acc.types, t).generic_parameters, g.number).type_constraints,
                             Unwrap(internal))
              THEN Panic
              ELSE Done([acc EXCEPT !.types[t + 1].generic_parameters[g.number + 1]
                                        .type_constraints[Unwrap(internal) + 1] = PushAttr(@, attr)])
    ELSE IF g.owner.tag = "MethodDef"
    THEN IF Underflows(g.owner.row) \/ ~InVec(meths, Sub1(g.owner.row)) THEN Panic
         ELSE LET mi == At(meths, Sub1(g.owner.row)) IN
              IF ~HasMethodAt(acc.types, mi) THEN Panic
              ELSE LET m == MethodAt(acc.types, mi) IN
                   IF ~InVec(m.generic_parameters, g.number) THEN Panic
                   ELSE IF internal = None
                   THEN Done([acc EXCEPT !.types = SetMethodAt(acc.types, mi,
                                  [m EXCEPT !.generic_parameters[g.number + 1] = PushAttr(@, attr)])])
                   ELSE IF ~InVec(At(m.generic_parameters, g.number).type_constraints,
                                  Unwrap(internal))
                   THEN Panic
                   ELSE Done([acc EXCEPT !.types = SetMethodAt(acc.types, mi,
                                  [m EXCEPT !.generic_parameters[g.number + 1]
                                                .type_constraints[Unwrap(internal) + 1] =
                                        PushAttr(@, attr)])])
    ELSE Panic   \* unreachable!()

\* A DeclSecurity parent: the security declaration of the row's own parent.
AttrSecurity(acc, meths, s, attr) ==
    IF s.parent.tag = "TypeDef"
    THEN IF Underflows(s.parent.row) \/ ~InVec(acc.types, Sub1(s.parent.row)) THEN Panic
         ELSE IF ~IsSome(At(acc.types, Sub1(s.parent.row)).security) THEN Panic
         ELSE Done([acc EXCEPT !.types[Sub1(s.parent.row) + 1].security =
                        Some(PushAttr(Unwrap(@), attr))])
    ELSE IF s.parent.tag = "MethodDef"
    THEN IF Underflows(s.parent.row) \/ ~InVec(meths, Sub1(s.parent.row)) THEN Panic
         ELSE LET mi == At(meths, Sub1(s.parent.row)) IN
              IF ~HasMethodAt(acc.types, mi) THEN Panic
              ELSE LET m == MethodAt(acc.types, mi) IN
                   IF ~IsSome(m.security) THEN Panic
                   ELSE Done([acc EXCEPT !.types = SetMethodAt(acc.types, mi,
                                  [m EXCEPT !.security = Some(PushAttr(Unwrap(@), attr))])])
    ELSE IF s.parent.tag = "Assembly"
    THEN IF ~IsSome(acc.assembly) THEN Panic
         ELSE IF ~IsSome(Unwrap(acc.assembly).security) THEN Panic
         ELSE Done([acc EXCEPT !.assembly =
                        Some([Unwrap(@) EXCEPT !.security = Some(PushAttr(Unwrap(@), attr))])])
    ELSE Panic   \* unreachable!()

\* One row: the attribute is pushed onto its parent.
AttrParent(acc, tbl, lk, a, attr) ==
    LET tag == a.parent.tag
        row == a.parent.row
    IN
    IF tag = "MethodDef"
    THEN IF Underflows(row) THEN Panic
         ELSE IF ~InVec(lk.methods, Sub1(row)) THEN Throw
         ELSE AttrMethod(acc, At(lk.methods, Sub1(row)), attr)
    ELSE IF tag = "Field"
    THEN IF Underflows(row) THEN Panic
         ELSE IF ~InVec(lk.fields, Sub1(row)) THEN Throw
         ELSE LET at == At(lk.fields, Sub1(row)) IN
              IF ~HasField(acc.types, at) THEN Panic
              ELSE Done([acc EXCEPT !.types[at[1] + 1].fields[at[2] + 1] = PushAttr(@, attr)])
    ELSE IF tag = "TypeRef" THEN AttrShared(acc, "type_refs", row, attr)
    ELSE IF tag = "TypeDef"
    THEN IF Underflows(row) THEN Panic
         ELSE IF ~InVec(acc.types, Sub1(row)) THEN Throw
         ELSE Done([acc EXCEPT !.types[Sub1(row) + 1] = PushAttr(@, attr)])
    ELSE IF tag = "Param"
    THEN IF Underflows(row) THEN Panic
         ELSE IF ~InVec(lk.params, Sub1(row)) THEN Throw
         ELSE LET at == At(lk.params, Sub1(row)) IN
              IF ~InVec(lk.methods, at[1]) THEN Panic
              ELSE LET mi == At(lk.methods, at[1]) IN
                   IF ~HasMethodAt(acc.types, mi) THEN Panic
                   ELSE LET m == MethodAt(acc.types, mi) IN
                        IF ~InVec(m.parameter_metadata, at[2]) THEN Panic
                        ELSE IF ~IsSome(At(m.parameter_metadata, at[2])) THEN Panic
                        ELSE Done([acc EXCEPT !.types = SetMethodAt(acc.types, mi,
                                       [m EXCEPT !.parameter_metadata[at[2] + 1] =
                                             Some(PushAttr(Unwrap(@), attr))])])
    ELSE IF tag = "InterfaceImpl"
    THEN IF Underflows(row) THEN Panic
         ELSE IF ~InVec(acc.shared.interface_idxs, Sub1(row)) THEN Throw
         ELSE LET at == At(acc.shared.interface_idxs, Sub1(row)) IN
              Done([acc EXCEPT !.types[at[1] + 1].implements[at[2] + 1] = PushAttr(@, attr)])
    ELSE IF tag = "MemberRef"
    THEN IF Underflows(row) THEN Panic
         ELSE IF InVec(acc.refs.field_map, Sub1(row)) /\ IsSome(At(acc.refs.field_map, Sub1(row)))
         THEN Done([acc EXCEPT !.refs.field_refs[Unwrap(At(acc.refs.field_map, Sub1(row))) + 1] =
                        PushAttr(@, attr)])
         ELSE IF InVec(acc.refs.method_map, Sub1(row)) /\ IsSome(At(acc.refs.method_map, Sub1(row)))
         THEN Done([acc EXCEPT !.refs.method_refs[Unwrap(At(acc.refs.method_map, Sub1(row))) + 1] =
                        PushAttr(@, attr)])
         ELSE Throw
    ELSE IF tag = "Module"
    THEN Done([acc EXCEPT !.shared.module = Some(PushAttr(Unwrap(@), attr))])
    ELSE IF tag = "DeclSecurity"
    THEN IF Underflows(row) THEN Panic
         ELSE IF ~InVec(tbl.decl_security, Sub1(row)) THEN Throw
         ELSE AttrSecurity(acc, lk.methods, At(tbl.decl_security, Sub1(row)), attr)
    ELSE IF tag = "Property"
    THEN IF Underflows(row) THEN Panic
         ELSE IF ~InVec(lk.properties, Sub1(row)) THEN Throw
         ELSE LET at == At(lk.properties, Sub1(row)) IN
              IF ~HasProperty(acc.types, at) THEN Panic
              ELSE Done([acc EXCEPT !.types[at[1] + 1].properties[at[2] + 1] = PushAttr(@, attr)])
    ELSE IF tag = "Event"
    THEN IF Underflows(row) THEN Panic
         ELSE IF ~InVec(lk.events, Sub1(row)) THEN Throw
         ELSE LET at == At(lk.events, Sub1(row)) IN
              IF ~HasEvent(acc.types, at) THEN Panic
              ELSE Done([acc EXCEPT !.types[at[1] + 1].events[at[2] + 1] = PushAttr(@, attr)])
    ELSE IF tag = "ModuleRef" THEN AttrShared(acc, "module_refs", row, attr)
    ELSE IF tag = "Assembly"
    THEN IF IsSome(acc.assembly)
         THEN Done([acc EXCEPT !.assembly = Some(PushAttr(Unwrap(@), attr))])
         ELSE Throw
    ELSE IF tag = "AssemblyRef" THEN AttrShared(acc, "assembly_refs", row, attr)
    ELSE IF tag = "File" THEN AttrShared(acc, "files", row, attr)
    ELSE IF tag = "ExportedType" THEN AttrShared(acc, "exports", row, attr)
    ELSE IF tag = "ManifestResource" THEN AttrShared(acc, "resources", row, attr)
    ELSE IF tag = "GenericParam"
    THEN IF Underflows(row) THEN Panic
         ELSE IF ~InVec(tbl.generic_param, Sub1(row)) THEN Throw
         ELSE AttrGeneric(acc, lk.methods, At(tbl.generic_param, Sub1(row)), None, attr)
    ELSE IF tag = "GenericParamConstraint"
    THEN IF Underflows(row) THEN Panic
         ELSE IF ~(InVec(lk.constraint_map, Sub1(row))
                   /\ At(lk.constraint_map, Sub1(row)) # <<>>) THEN Throw
         ELSE LET at == At(lk.constraint_map, Sub1(row)) IN
              AttrGeneric(acc, lk.methods, At(tbl.generic_param, at[1]), Some(at[2]), attr)
    ELSE IF tag \in {"MethodSpec", "StandAloneSig", "TypeSpec"} THEN Done(acc)   \* warn!
    ELSE Throw

AttrOne(acc, tbl, lk, a, idx) ==
    LET c == AttrConstructor(a, lk.methods, acc.refs.method_map) IN
    IF c = "err" THEN Throw
    ELSE IF c = "panic" THEN Panic
    ELSE AttrParent(acc, tbl, lk, a, [row |-> idx])

CustomAttributesPass(acc0, tbl, lk) ==
    LET rows == tbl.custom_attribute
        F[k \in 0..Len(rows)] ==
            IF k = 0 THEN Done(acc0)
            ELSE LET prev == F[k - 1] IN
                 IF prev.st # "ok" THEN prev ELSE AttrOne(prev.v, tbl, lk, rows[k], k - 1)
    IN  F[Len(rows)]

(***************************************************************************)
(* method bodies.  m.body: [readable, fat, local_var_sig_tok, sizes,       *)
(* clauses]: the byte sizes of the instructions and the exception clauses   *)
(* of the data section, with byte offsets and byte lengths.                 *)
(***************************************************************************)
\* The header's local variables: "ok", "err" or "panic".
LocalVariables(body, sig_len) ==
    IF ~body.fat THEN "ok"
    ELSE LET tok == body.local_var_sig_tok IN
         IF tok = Token("Module", 0) THEN "ok"          \* local_var_sig_tok == 0
         ELSE IF tok.table = "StandAloneSig" /\ tok.index <= sig_len
              THEN IF tok.index = 0 THEN "panic"        \* stand_alone_sig[0 - 1]
                   ELSE "ok"
              ELSE "err"

\* instr_offsets: the byte offset of every instruction, from 0.
InstrOffsets(sizes) ==
    LET F[k \in 0..Len(sizes)] == IF k = 0 THEN 0 ELSE F[k - 1] + sizes[k]
    IN  [k \in 1..Len(sizes) |-> F[k - 1]]

\* An exception clause that keeps the byte offset.
ByteOffset(offsets, byte) == Done(byte)

\* get_offset!: the index of the instruction at a byte offset; the offset one
\* past the largest instruction offset stands for the end of the body.
\* max().unwrap() panics when the body has no instruction.
GetOffset(offsets, byte) ==
    IF Len(offsets) = 0 THEN Panic
    ELSE LET max == offsets[Len(offsets)] IN     \* offsets ascend
         IF byte = max + 1 THEN Done(Len(offsets))
         ELSE IF \E k \in 1..Len(offsets) : offsets[k] = byte
              THEN Done((CHOOSE k \in 1..Len(offsets) : offsets[k] = byte) - 1)
              ELSE Throw

\* end - start on usize.
OffsetDifference(end, start) ==
    IF end >= start THEN Done(end - start)
    ELSE IF overflow_checks THEN Panic
    ELSE Done(UsizeMax - (start - end) + 1)

\* One exception clause h: the kind first, then the offsets and lengths.
\* h.class_ok: whether the class token of a typed clause converts.
ExceptionOne(offsets, h) ==
    LET filter == IF h.flags = 1 THEN GetOffset(offsets, h.class_token_or_filter)
                  ELSE Done(0)
        try == GetOffset(offsets, h.try_offset)
        handler == GetOffset(offsets, h.handler_offset)
        try_end == GetOffset(offsets, h.try_offset + h.try_length)
        handler_end == GetOffset(offsets, h.handler_offset + h.handler_length)
    IN  IF h.flags \notin {0, 1, 2, 4} THEN Throw
        ELSE IF h.flags = 0 /\ ~h.class_ok THEN Throw
        ELSE IF filter.st # "ok" THEN filter
        ELSE IF try.st # "ok" THEN try
        ELSE IF handler.st # "ok" THEN handler
        ELSE IF try_end.st # "ok" THEN try_end
        ELSE IF OffsetDifference(try_end.v, try.v).st # "ok"
             THEN OffsetDifference(try_end.v, try.v)
        ELSE IF handler_end.st # "ok" THEN handler_end
        ELSE IF OffsetDifference(handler_end.v, handler.v).st # "ok"
             THEN OffsetDifference(handler_end.v, handler.v)
        ELSE Done([kind |-> IF h.flags = 0 THEN "TypedException"
                            ELSE IF h.flags = 1 THEN "Filter"
                            ELSE IF h.flags = 2 THEN "Finally" ELSE "Fault",
                   filter_offset |-> filter.v,
                   try_offset |-> try.v,
                   try_length |-> OffsetDifference(try_end.v, try.v).v,
                   handler_offset |-> handler.v,
                   handler_length |-> OffsetDifference(handler_end.v, handler.v).v])

\* The exception clauses of a body, in order, up to the first failure.
ExceptionHandlers(offsets, clauses) ==
    LET F[k \in 0..Len(clauses)] ==
            IF k = 0 THEN Done(<<>>)
            ELSE LET prev == F[k - 1] IN
                 IF prev.st # "ok" THEN prev
                 ELSE LET e == ExceptionOne(offsets, clauses[k]) IN
                      IF e.st # "ok" THEN e ELSE Done(Append(prev.v, e.v))
    IN  F[Len(clauses)]

BodyOne(tys, meths, m, idx, sig_len) ==
    IF m.rva = 0 THEN Done(tys)
    ELSE LET mi == At(meths, idx) IN
         IF ~HasMethodAt(tys, mi) THEN Panic
         ELSE IF ~m.body.readable THEN Throw
         ELSE LET l == LocalVariables(m.body, sig_len) IN
              IF l = "err" THEN Throw
              ELSE IF l = "panic" THEN Panic
              ELSE LET e == ExceptionHandlers(InstrOffsets(m.body.sizes), m.body.clauses) IN
                   IF e.st # "ok" THEN e
                   ELSE Done(SetMethodAt(tys, mi,
                                 [MethodAt(tys, mi) EXCEPT
                                     !.body = Some([row |-> idx, len |-> Len(m.body.sizes),
                                                    exceptions |-> e.v])]))

MethodBodiesPass(tys, meths, tbl, skip) ==
    IF skip THEN Done(tys)
    ELSE LET rows == tbl.method_def
             F[k \in 0..Len(rows)] ==
                 IF k = 0 THEN Done(tys)
                 ELSE LET prev == F[k - 1] IN
                      IF prev.st # "ok" THEN prev
                      ELSE BodyOne(prev.v, meths, rows[k], k - 1, Len(tbl.stand_alone_sig))
         IN  F[Len(rows)]

(***************************************************************************)
(* The call.  Each pass is one step; a pass that throws returns Err from   *)
(* resolve (throw!, ?), a panic unwinds out of it; in both cases nothing   *)
(* runs afterwards and no Resolution exists.                               *)
(***************************************************************************)
data == <<tables, cli, opts, overflow_checks, assembly, types, owned_fields,
          owned_methods, owned_params, shared, fields, methods, params,
          properties, events, constraint_map, refs>>

\* The pass completed: control falls through to the next one; after the last
\* pass resolve returns Ok(res).
Advance ==
    /\ pc' = NextPass(pc)
    /\ result' = IF NextPass(pc) = "done" THEN "ok" ELSE "running"
    /\ err_at' = err_at

\* A resolver that notes the failure of a pass and goes on with the next one.
AbortAndContinue(o) ==
    /\ pc' = NextPass(pc)
    /\ result' = IF NextPass(pc) = "done" THEN "ok" ELSE "running"
    /\ err_at' = pc
    /\ res' = res
    /\ UNCHANGED data

\* return Err(..) (o = Throw) or the unwinding of a panic (o = Panic).
Abort(o) ==
    /\ pc' = pc
    /\ result' = o.st
    /\ err_at' = pc
    /\ res' = None
    /\ UNCHANGED data

Heaps ==
    /\ result = "running" /\ pc = "heaps"
    /\ LET o == HeapsPass(cli.streams) IN
       IF o.st = "ok"
       THEN /\ Advance

            /\ UNCHANGED <<tables, cli, opts, overflow_checks, assembly, types,
                            owned_fields, owned_methods,
                            owned_params, shared, fields,
                            methods, params, properties, events,
                            constraint_map, refs, res>>
       ELSE Abort(o)

AssemblyStep ==
    /\ result = "running" /\ pc = "assembly"
    /\ LET o == AssemblyPass(tables.assembly) IN
       IF o.st = "ok"
       THEN /\ Advance
            /\ assembly' = o.v
            /\ UNCHANGED <<tables, cli, opts, overflow_checks, types,
                            owned_fields, owned_methods,
                            owned_params, shared, fields,
                            methods, params, properties, events,
                            constraint_map, refs, res>>
       ELSE Abort(o)

AssemblyRefs ==
    /\ result = "running" /\ pc = "assembly_refs"
    /\ LET o == AssemblyRefsPass(tables.assembly_ref) IN
       IF o.st = "ok"
       THEN /\ Advance
            /\ shared' = [shared EXCEPT !.assembly_refs = o.v]
            /\ UNCHANGED <<tables, cli, opts, overflow_checks, assembly, types,
                            owned_fields, owned_methods,
                            owned_params, fields, methods,
                            params, properties, events,
                            constraint_map, refs, res>>
       ELSE Abort(o)

TypeDefs ==
    /\ result = "running" /\ pc = "type_defs"
    /\ LET o == TypeDefsPass(tables.type_def, tables.class_layout) IN
       IF o.st = "ok"
       THEN /\ Advance
            /\ types' = o.v
            /\ UNCHANGED <<tables, cli, opts, overflow_checks, assembly,
                            owned_fields, owned_methods,
                            owned_params, shared, fields,
                            methods, params, properties, events,
                            constraint_map, refs, res>>
       ELSE Abort(o)

NestedClass ==
    /\ result = "running" /\ pc = "nested_class"
    /\ LET o == NestedClassPass(types, tables.nested_class) IN
       IF o.st = "ok"
       THEN /\ Advance
            /\ types' = o.v
            /\ UNCHANGED <<tables, cli, opts, overflow_checks, assembly,
                            owned_fields, owned_methods,
                            owned_params, shared, fields,
                            methods, params, properties, events,
                            constraint_map, refs, res>>
       ELSE Abort(o)

Ranges ==
    /\ result = "running" /\ pc = "ranges"
    /\ LET o == RangesPass(tables) IN
       IF o.st = "ok"
       THEN /\ Advance
            /\ owned_fields' = o.v.owned_fields
            /\ owned_methods' = o.v.owned_methods
            /\ UNCHANGED <<tables, cli, opts, overflow_checks, assembly, types,
                            owned_params, shared, fields,
                            methods, params, properties, events,
                            constraint_map, refs, res>>
       ELSE Abort(o)

Files ==
    /\ result = "running" /\ pc = "files"
    /\ LET o == FilesPass(tables, shared) IN
       IF o.st = "ok"
       THEN /\ Advance
            /\ shared' = o.v
            /\ UNCHANGED <<tables, cli, opts, overflow_checks, assembly, types,
                            owned_fields, owned_methods,
                            owned_params, fields, methods,
                            params, properties, events,
                            constraint_map, refs, res>>
       ELSE Abort(o)

TypeRefs ==
    /\ result = "running" /\ pc = "type_refs"
    /\ LET o == TypeRefsPass(tables.type_ref, shared) IN
       IF o.st = "ok"
       THEN /\ Advance
            /\ shared' = [shared EXCEPT !.type_refs = o.v]
            /\ UNCHANGED <<tables, cli, opts, overflow_checks, assembly, types,
                            owned_fields, owned_methods,
                            owned_params, fields, methods,
                            params, properties, events,
                            constraint_map, refs, res>>
       ELSE Abort(o)

Interfaces ==
    /\ result = "running" /\ pc = "interfaces"
    /\ LET o == InterfacesPass(types, tables.interface_impl) IN
       IF o.st = "ok"
       THEN /\ Advance
            /\ types' = o.v.types
            /\ shared' = [shared EXCEPT !.interface_idxs = o.v.idxs]
            /\ UNCHANGED <<tables, cli, opts, overflow_checks, assembly,
                            owned_fields, owned_methods,
                            owned_params, fields, methods,
                            params, properties, events,
                            constraint_map, refs, res>>
       ELSE Abort(o)

Fields ==
    /\ result = "running" /\ pc = "fields"
    /\ \E junk \in GarbagePair :
       LET o == FieldsPass(types, owned_fields, tables.field) IN
       IF o.st = "ok"
       THEN /\ Advance
            /\ types' = o.v.types
            /\ fields' = Allocated(o.v.lookup, junk)
            /\ UNCHANGED <<tables, cli, opts, overflow_checks, assembly,
                            owned_fields, owned_methods,
                            owned_params, shared, methods,
                            params, properties, events,
                            constraint_map, refs, res>>
       ELSE Abort(o)

FieldLayout ==
    /\ result = "running" /\ pc = "field_layout"
    /\ LET o == FieldLayoutPass(types, fields, tables.field_layout) IN
       IF o.st = "ok"
       THEN /\ Advance
            /\ types' = o.v
            /\ UNCHANGED <<tables, cli, opts, overflow_checks, assembly,
                            owned_fields, owned_methods,
                            owned_params, shared, fields,
                            methods, params, properties, events,
                            constraint_map, refs, res>>
       ELSE Abort(o)

FieldRva ==
    /\ result = "running" /\ pc = "field_rva"
    /\ LET o == FieldRvaPass(types, fields, tables.field_rva) IN
       IF o.st = "ok"
       THEN /\ Advance
            /\ types' = o.v
            /\ UNCHANGED <<tables, cli, opts, overflow_checks, assembly,
                            owned_fields, owned_methods,
                            owned_params, shared, fields,
                            methods, params, properties, events,
                            constraint_map, refs, res>>
       ELSE Abort(o)

Methods ==
    /\ result = "running" /\ pc = "methods"
    /\ \E junk \in GarbageMethodIndex :
       LET o == MethodsPass(types, owned_methods, tables) IN
       IF o.st = "ok"
       THEN /\ Advance
            /\ types' = o.v.types
            /\ methods' = Allocated(o.v.lookup, junk)
            /\ owned_params' = o.v.owned_params
            /\ UNCHANGED <<tables, cli, opts, overflow_checks, assembly,
                            owned_fields, owned_methods, shared,
                            fields, params, properties, events,
                            constraint_map, refs, res>>
       ELSE Abort(o)

ImplMap ==
    /\ result = "running" /\ pc = "impl_map"
    /\ LET o == ImplMapPass(types, fields, methods, Len(shared.module_refs), tables.impl_map) IN
       IF o.st = "ok"
       THEN /\ Advance
            /\ types' = o.v
            /\ UNCHANGED <<tables, cli, opts, overflow_checks, assembly,
                            owned_fields, owned_methods,
                            owned_params, shared, fields,
                            methods, params, properties, events,
                            constraint_map, refs, res>>
       ELSE Abort(o)

Security ==
    /\ result = "running" /\ pc = "security"
    /\ LET o == SecurityPass(types, assembly, methods, tables.decl_security) IN
       IF o.st = "ok"
       THEN /\ Advance
            /\ types' = o.v.types
            /\ assembly' = o.v.assembly
            /\ UNCHANGED <<tables, cli, opts, overflow_checks, owned_fields,
                            owned_methods, owned_params, shared,
                            fields, methods, params, properties,
                            events, constraint_map, refs, res>>
       ELSE Abort(o)

GenericParams ==
    /\ result = "running" /\ pc = "generic_params"
    /\ LET o == GenericParamsPass(types, methods, tables) IN
       IF o.st = "ok"
       THEN /\ Advance
            /\ types' = o.v.types
            /\ constraint_map' = o.v.constraint_map
            /\ UNCHANGED <<tables, cli, opts, overflow_checks, assembly,
                            owned_fields, owned_methods,
                            owned_params, shared, fields,
                            methods, params, properties, events,
                            refs, res>>
       ELSE Abort(o)

GenericSort ==
    /\ result = "running" /\ pc = "generic_sort"
    /\ LET o == Done(GenericSortPass(types)) IN
       IF o.st = "ok"
       THEN /\ Advance
            /\ types' = o.v
            /\ UNCHANGED <<tables, cli, opts, overflow_checks, assembly,
                            owned_fields, owned_methods,
                            owned_params, shared, fields,
                            methods, params, properties, events,
                            constraint_map, refs, res>>
       ELSE Abort(o)

Params ==
    /\ result = "running" /\ pc = "params"
    /\ \E junk \in GarbagePair :
       LET o == ParamsPass(types, methods, owned_params, tables.param) IN
       IF o.st = "ok"
       THEN /\ Advance
            /\ types' = o.v.types
            /\ params' = Allocated(o.v.lookup, junk)
            /\ UNCHANGED <<tables, cli, opts, overflow_checks, assembly,
                            owned_fields, owned_methods,
                            owned_params, shared, fields,
                            methods, properties, events,
                            constraint_map, refs, res>>
       ELSE Abort(o)

FieldMarshal ==
    /\ result = "running" /\ pc = "field_marshal"
    /\ LET o == FieldMarshalPass(types, fields, methods, params, tables.field_marshal) IN
       IF o.st = "ok"
       THEN /\ Advance
            /\ types' = o.v
            /\ UNCHANGED <<tables, cli, opts, overflow_checks, assembly,
                            owned_fields, owned_methods,
                            owned_params, shared, fields,
                            methods, params, properties, events,
                            constraint_map, refs, res>>
       ELSE Abort(o)

Properties ==
    /\ result = "running" /\ pc = "properties"
    /\ \E junk \in GarbagePair :
       LET o == PropertiesPass(types, tables) IN
       IF o.st = "ok"
       THEN /\ Advance
            /\ types' = o.v.types
            /\ properties' = Allocated(o.v.lookup, junk)
            /\ UNCHANGED <<tables, cli, opts, overflow_checks, assembly,
                            owned_fields, owned_methods,
                            owned_params, shared, fields,
                            methods, params, events,
                            constraint_map, refs, res>>
       ELSE Abort(o)

Constants ==
    /\ result = "running" /\ pc = "constants"
    /\ LET o == ConstantsPass(types, fields, methods, params, properties, tables.constant) IN
       IF o.st = "ok"
       THEN /\ Advance
            /\ types' = o.v
            /\ UNCHANGED <<tables, cli, opts, overflow_checks, assembly,
                            owned_fields, owned_methods,
                            owned_params, shared, fields,
                            methods, params, properties, events,
                            constraint_map, refs, res>>
       ELSE Abort(o)

Events ==
    /\ result = "running" /\ pc = "events"
    /\ \E junk \in GarbagePair :
       LET o == EventsPass(types, methods, tables) IN
       IF o.st = "ok"
       THEN /\ Advance
            /\ types' = o.v.types
            /\ methods' = o.v.methods
            /\ tables' = [tables EXCEPT !.method_semantics = o.v.sems]
            /\ events' = Allocated(o.v.lookup, junk)
            /\ UNCHANGED <<cli, opts, overflow_checks, assembly, owned_fields,
                            owned_methods, owned_params, shared,
                            fields, params, properties,
                            constraint_map, refs, res>>
       ELSE Abort(o)

MethodSemantics ==
    /\ result = "running" /\ pc = "method_semantics"
    /\ LET o == MethodSemanticsPass(types, methods, properties, events, tables.method_semantics) IN
       IF o.st = "ok"
       THEN /\ Advance
            /\ types' = o.v.types
            /\ methods' = o.v.methods
            /\ UNCHANGED <<tables, cli, opts, overflow_checks, assembly,
                            owned_fields, owned_methods,
                            owned_params, shared, fields,
                            params, properties, events,
                            constraint_map, refs, res>>
       ELSE Abort(o)

MemberRefs ==
    /\ result = "running" /\ pc = "member_refs"
    /\ LET o == MemberRefsPass(tables.member_ref, methods, Len(shared.module_refs)) IN
       IF o.st = "ok"
       THEN /\ Advance
            /\ refs' = o.v
            /\ UNCHANGED <<tables, cli, opts, overflow_checks, assembly, types,
                            owned_fields, owned_methods,
                            owned_params, shared, fields,
                            methods, params, properties, events,
                            constraint_map, res>>
       ELSE Abort(o)

MethodImpl ==
    /\ result = "running" /\ pc = "method_impl"
    /\ LET o == MethodImplPass(types, tables.method_impl) IN
       IF o.st = "ok"
       THEN /\ Advance
            /\ types' = o.v
            /\ UNCHANGED <<tables, cli, opts, overflow_checks, assembly,
                            owned_fields, owned_methods,
                            owned_params, shared, fields,
                            methods, params, properties, events,
                            constraint_map, refs, res>>
       ELSE Abort(o)

ResolutionStep ==
    /\ result = "running" /\ pc = "resolution"
    /\ LET o == ResolutionPass(cli.entry_point_token, methods, shared) IN
       IF o.st = "ok"
       THEN /\ Advance
            /\ res' = o.v
            /\ UNCHANGED <<tables, cli, opts, overflow_checks, assembly, types,
                            owned_fields, owned_methods,
                            owned_params, shared, fields,
                            methods, params, properties, events,
                            constraint_map, refs>>
       ELSE Abort(o)

CustomAttributes ==
    /\ result = "running" /\ pc = "custom_attributes"
    /\ LET o == CustomAttributesPass([types |-> types, shared |-> shared, assembly |-> assembly, refs |-> refs], tables, [fields |-> fields, methods |-> methods, params |-> params, properties |-> properties, events |-> events, constraint_map |-> constraint_map]) IN
       IF o.st = "ok"
       THEN /\ Advance
            /\ types' = o.v.types
            /\ shared' = o.v.shared
            /\ assembly' = o.v.assembly
            /\ refs' = o.v.refs
            /\ UNCHANGED <<tables, cli, opts, overflow_checks, owned_fields,
                            owned_methods, owned_params, fields,
                            methods, params, properties, events,
                            constraint_map, res>>
       ELSE Abort(o)

MethodBodies ==
    /\ result = "running" /\ pc = "method_bodies"
    /\ LET o == MethodBodiesPass(types, methods, tables, opts.skip_method_bodies) IN
       IF o.st = "ok"
       THEN /\ Advance
            /\ types' = o.v
            /\ UNCHANGED <<tables, cli, opts, overflow_checks, assembly,
                            owned_fields, owned_methods,
                            owned_params, shared, fields,
                            methods, params, properties, events,
                            constraint_map, refs, res>>
       ELSE Abort(o)

Next ==
    \/ Heaps
    \/ AssemblyStep
    \/ AssemblyRefs
    \/ TypeDefs
    \/ NestedClass
    \/ Ranges
    \/ Files
    \/ TypeRefs
    \/ Interfaces
    \/ Fields
    \/ FieldLayout
    \/ FieldRva
    \/ Methods
    \/ ImplMap
    \/ Security
    \/ GenericParams
    \/ GenericSort
    \/ Params
    \/ FieldMarshal
    \/ Properties
    \/ Constants
    \/ Events
    \/ MethodSemantics
    \/ MemberRefs
    \/ MethodImpl
    \/ ResolutionStep
    \/ CustomAttributes
    \/ MethodBodies

(***************************************************************************)
(* Inputs.  A well-formed image of two types: T0 owns field 0, methods     *)
(* 0..3, property 0 and event 0 (add: method 0, remove: method 1); T1 owns *)
(* field 1 and method 4.  Method 0 has one parameter.  Every other table   *)
(* has at most one row.  The scenarios below replace single tables.        *)
(***************************************************************************)
MethodRow(param_list, num_params, rva, fat, tok) ==
    [flags |-> 6, impl_flags |-> 0, param_list |-> param_list, num_params |-> num_params,
     rva |-> rva, body |-> [readable |-> TRUE, fat |-> fat, local_var_sig_tok |-> tok,
                            sizes |-> <<1>>, clauses |-> <<>>]]

SemanticsRow(semantics, method, association) ==
    [semantics |-> semantics, method |-> method, association |-> association]

Base ==
    [assembly |-> <<[hash_alg_id |-> HashSHA1]>>,
     assembly_ref |-> <<[name |-> "mscorlib"]>>,
     type_def |-> <<[flags |-> 0, field_list |-> 1, method_list |-> 1],
                    [flags |-> 0, field_list |-> 2, method_list |-> 5]>>,
     class_layout |-> <<>>,
     nested_class |-> <<>>,
     field |-> <<[flags |-> 6], [flags |-> 1]>>,
     method_def |-> <<MethodRow(1, 1, 0, FALSE, Token("Module", 0)),
                      MethodRow(2, 0, 0, FALSE, Token("Module", 0)),
                      MethodRow(2, 0, 1, FALSE, Token("Module", 0)),
                      MethodRow(2, 0, 0, FALSE, Token("Module", 0)),
                      MethodRow(2, 0, 2, TRUE, Token("StandAloneSig", 1))>>,
     param |-> <<[sequence |-> 1]>>,
     file |-> <<[name |-> "a.netmodule"]>>,
     manifest_resource |-> <<[flags |-> VisibilityPublic, implementation |-> Null]>>,
     exported_type |-> <<[name |-> "String", namespace |-> "System",
                         implementation |-> Coded("AssemblyRef", 1)]>>,
     module |-> <<[name |-> "a.dll"]>>,
     module_ref |-> <<[name |-> "kernel32"]>>,
     type_ref |-> <<[name |-> "String", namespace |-> "System", resolution_scope |-> Null],
                    [name |-> "Object", namespace |-> "System",
                     resolution_scope |-> Coded("AssemblyRef", 1)]>>,
     interface_impl |-> <<[class |-> 1]>>,
     field_layout |-> <<>>,
     field_rva |-> <<>>,
     impl_map |-> <<>>,
     decl_security |-> <<>>,
     generic_param |-> <<>>,
     generic_param_constraint |-> <<>>,
     field_marshal |-> <<>>,
     property_map |-> <<[parent |-> 1, property_list |-> 1]>>,
     property |-> <<[flags |-> 0]>>,
     constant |-> <<>>,
     event_map |-> <<[parent |-> 1, event_list |-> 1]>>,
     event |-> <<[event_flags |-> 0]>>,
     method_semantics |-> <<SemanticsRow(SemAddOn, 1, Coded("Event", 1)),
                            SemanticsRow(SemRemoveOn, 2, Coded("Event", 1))>>,
     member_ref |-> <<[class |-> Coded("TypeRef", 1), field_sig |-> FALSE, method_sig |-> TRUE]>>,
     method_impl |-> <<>>,
     custom_attribute |-> <<>>,
     stand_alone_sig |-> <<[kind |-> "LocalVar"]>>,
     type_spec |-> <<>>,
     method_spec |-> <<>>]

AllStreams == {"#Strings", "#Blob", "#GUID", "#US", "#~"}

\* The state when resolve is called on an image.
Called(tbl, streams, tok, skip, oc) ==
    /\ tables = tbl
    /\ cli = [streams |-> streams, entry_point_token |-> tok]
    /\ opts = [skip_method_bodies |-> skip]
    /\ overflow_checks = oc
    /\ pc = "heaps"
    /\ result = "running"
    /\ err_at = ""
    /\ assembly = None
    /\ types = <<>>
    /\ owned_fields = <<>>
    /\ owned_methods = <<>>
    /\ owned_params = <<>>
    /\ shared = [assembly_refs |-> <<>>, files |-> <<>>, resources |-> <<>>,
                 exports |-> <<>>, module |-> None, module_refs |-> <<>>,
                 type_refs |-> <<>>, interface_idxs |-> <<>>]
    /\ fields = <<>>
    /\ methods = <<>>
    /\ params = <<>>
    /\ properties = <<>>
    /\ events = <<>>
    /\ constraint_map = <<>>
    /\ refs = [field_refs |-> <<>>, method_refs |-> <<>>, field_map |-> <<>>,
               method_map |-> <<>>]
    /\ res = None

\* Sequences over S of length at most n.
SeqUpTo(S, n) == UNION {[1..k -> S] : k \in 0..n}

(***************************************************************************)
(* Scenario: MethodSemantics rows beyond the two listeners of the event.   *)
(***************************************************************************)
ExtraSemantics ==
    {SemanticsRow(f, m, a) :
        f \in {SemSetter, SemGetter, SemOther, SemAddOn, SemFire},
        m \in {3, 4, 5},
        a \in {Coded("Property", 1), Coded("Event", 1)}}

SemanticsInit ==
    \E extra \in SeqUpTo(ExtraSemantics, MaxSem) :
        Called([Base EXCEPT !.method_semantics = @ \o extra], AllStreams,
               Token("MethodDef", 1), FALSE, TRUE)

SpecSemantics == SemanticsInit /\ [][Next]_vars

(***************************************************************************)
(* Where the output holds methods.                                         *)
(***************************************************************************)
\* The MethodDef rows of the methods in a sequence of methods.
RowsOf(ms) == [k \in 1..Len(ms) |-> ms[k].row]

OptionSeq(o) == IF IsSome(o) THEN <<Unwrap(o)>> ELSE <<>>

PropertySlots(p) == OptionSeq(p.getter) \o OptionSeq(p.setter) \o p.other

EventSlots(e) ==
    <<e.add_listener, e.remove_listener>> \o OptionSeq(e.raise_event) \o e.other

Flatten(ss) ==
    LET F[k \in 0..Len(ss)] == IF k = 0 THEN <<>> ELSE F[k - 1] \o ss[k]
    IN  F[Len(ss)]

\* The methods held in the property and event slots of a type.
SlotMethods(t) ==
    Flatten([k \in 1..Len(t.properties) |-> PropertySlots(t.properties[k])])
    \o Flatten([k \in 1..Len(t.events) |-> EventSlots(t.events[k])])

SlotRows(t) == RowsOf(SlotMethods(t))

\* Every method the output holds, in whatever place.
HeldMethods(tys) ==
    Flatten([t \in 1..Len(tys) |-> tys[t].methods \o SlotMethods(tys[t])])

HeldRows(tys) == RowsOf(HeldMethods(tys))

Count(seq, x) == Cardinality({k \in 1..Len(seq) : seq[k] = x})

MethodRows == 0..(Len(tables.method_def) - 1)

\* C1: after resolve returns Ok, every MethodDef row is held in exactly one
\* place of the output (a top-level list or one property or event slot), so
\* the methods held in all places number the MethodDef rows.
C1_EveryMethodHeldOnce ==
    result = "ok" =>
        /\ \A g \in MethodRows : Count(HeldRows(types), g) = 1
        /\ Len(HeldRows(types)) = Len(tables.method_def)

\* C2: once the event pass and the remaining MethodSemantics pass have run,
\* methods[g] designates, for every MethodDef row g, the method built from
\* row g.
C2_LookupDesignatesOwnMethod ==
    PassNo(pc) > PassNo("method_semantics") =>
        \A g \in MethodRows :
            /\ HasMethodAt(types, At(methods, g))
            /\ MethodAt(types, At(methods, g)).row = g

\* C3: after resolve returns Ok, every position k of every type's top-level
\* list is designated by exactly one lookup entry Method(k) of that type, no
\* entry of the type is Method(k') with k' past the list, and the method at k
\* is in no property or event slot of the type.
C3_TopLevelPositionsDesignatedOnce ==
    result = "ok" =>
        \A t \in 1..Len(types) :
            /\ \A k \in 0..(Len(types[t].methods) - 1) :
                   /\ Cardinality({g \in MethodRows :
                                      At(methods, g) = MethodIndex(t - 1, Method(k))}) = 1
                   /\ Count(SlotRows(types[t]), At(types[t].methods, k).row) = 0
            /\ \A g \in MethodRows :
                   (At(methods, g).parent_type = t - 1 /\ At(methods, g).member.kind = "Method")
                       => At(methods, g).member.idx < Len(types[t].methods)

(***************************************************************************)
(* Scenario: one row of one table carries an index column of any value,    *)
(* 0 and row numbers past the target table included; or a heap is missing; *)
(* or the method bodies are skipped.  Both build profiles.                 *)
(***************************************************************************)
Rows == 0..MaxRow

ParentTags ==
    {"MethodDef", "Field", "TypeRef", "TypeDef", "Param", "InterfaceImpl", "MemberRef",
     "Module", "DeclSecurity", "Property", "Event", "StandAloneSig", "ModuleRef",
     "TypeSpec", "Assembly", "AssemblyRef", "File", "ExportedType", "ManifestResource",
     "GenericParam", "GenericParamConstraint", "MethodSpec", "Null"}

\* The images of the scenario.
IndexTables ==
    {[Base EXCEPT !.nested_class = <<[nested_class |-> n, enclosing_class |-> e]>>] :
        n \in Rows, e \in Rows}
    \cup {[Base EXCEPT !.interface_impl = <<[class |-> r]>>] : r \in Rows}
    \cup {[Base EXCEPT !.field_layout = <<[field |-> r, offset |-> 8]>>] : r \in Rows}
    \cup {[Base EXCEPT !.field_rva = <<[field |-> r, mapped |-> m, rva |-> 64]>>] :
             r \in Rows, m \in BOOLEAN}
    \cup {[Base EXCEPT !.impl_map = <<[mapping_flags |-> CallConvUnit, import_scope |-> 1,
                                       member_forwarded |-> Coded(t, r)]>>] :
             t \in {"Field", "MethodDef"}, r \in Rows}
    \cup {[Base EXCEPT !.impl_map = <<[mapping_flags |-> CallConvUnit, import_scope |-> r,
                                       member_forwarded |-> Coded("MethodDef", 3)]>>] :
             r \in Rows}
    \cup {[Base EXCEPT !.decl_security = <<[parent |-> Coded(t, r)]>>] :
             t \in {"TypeDef", "MethodDef", "Assembly"}, r \in Rows}
    \cup {[Base EXCEPT !.generic_param = <<[number |-> 0, flags |-> 0, owner |-> Coded(t, r)]>>] :
             t \in {"TypeDef", "MethodDef"}, r \in Rows}
    \cup {[Base EXCEPT !.generic_param = <<[number |-> 0, flags |-> 0,
                                            owner |-> Coded("TypeDef", 1)]>>,
                       !.generic_param_constraint = <<[owner |-> r]>>] : r \in Rows}
    \cup {[Base EXCEPT !.property_map = <<[parent |-> r, property_list |-> 1]>>] : r \in Rows}
    \cup {[Base EXCEPT !.event_map = <<[parent |-> r, event_list |-> 1]>>] : r \in Rows}
    \cup {[Base EXCEPT !.method_semantics = @ \o <<SemanticsRow(SemGetter, r, Coded("Property", 1))>>] :
             r \in Rows}
    \cup {[Base EXCEPT !.method_semantics = @ \o <<SemanticsRow(SemOther, 3, Coded(t, r))>>] :
             t \in {"Property", "Event"}, r \in Rows}
    \cup {[Base EXCEPT !.method_impl = <<[class |-> r]>>] : r \in Rows}
    \cup {[Base EXCEPT !.custom_attribute = <<[parent |-> Coded(t, r),
                                               attr_type |-> Coded("MethodDef", 3)]>>,
                       !.generic_param = <<[number |-> 0, flags |-> 0,
                                            owner |-> Coded("TypeDef", 1)]>>,
                       !.generic_param_constraint = <<[owner |-> 1]>>,
                       !.decl_security = <<[parent |-> Coded("TypeDef", 1)]>>] :
             t \in ParentTags, r \in Rows}
    \cup {[Base EXCEPT !.custom_attribute = <<[parent |-> Coded("TypeDef", 1),
                                               attr_type |-> Coded(t, r)]>>] :
             t \in {"MethodDef", "MemberRef"}, r \in Rows}
    \cup {[Base EXCEPT !.method_def[5].body.local_var_sig_tok = Token(t, r)] :
             t \in {"StandAloneSig", "TypeDef"}, r \in Rows}
    \cup {[Base EXCEPT !.type_ref = <<[name |-> n, namespace |-> "System",
                                       resolution_scope |-> Coded(t, r)]>>] :
             n \in {"String", "Object"},
             t \in {"Module", "ModuleRef", "AssemblyRef", "TypeRef", "Null"}, r \in 0..2}
    \cup {[Base EXCEPT !.exported_type = <<[name |-> "String", namespace |-> "System",
                                            implementation |-> Coded(t, r)]>>] :
             t \in {"File", "AssemblyRef", "ExportedType", "Null"}, r \in 0..2}
    \cup {[Base EXCEPT !.manifest_resource = <<[flags |-> f, implementation |-> Coded(t, r)]>>] :
             f \in {VisibilityPublic, 3},
             t \in {"File", "AssemblyRef", "ExportedType", "Null"}, r \in 0..2}
    \cup {[Base EXCEPT !.assembly = <<[hash_alg_id |-> h]>>] : h \in {HashNone, HashMD5, 1}}
    \cup {[Base EXCEPT !.module = <<>>]}

Init ==
    \/ \E tbl \in IndexTables, oc \in BOOLEAN :
           Called(tbl, AllStreams, Token("Module", 0), FALSE, oc)
    \/ \E s \in AllStreams :
           Called(Base, AllStreams \ {s}, Token("Module", 0), FALSE, TRUE)
    \/ \E t \in {"MethodDef", "File", "TypeDef"}, r \in Rows, skip \in BOOLEAN :
           Called(Base, AllStreams, Token(t, r), skip, TRUE)

Spec == Init /\ [][Next]_vars

(***************************************************************************)
(* The call as a whole.                                                    *)
(***************************************************************************)
CallState ==
    /\ result = "ok" => pc = "done" /\ err_at = "" /\ IsSome(res)
    /\ result = "err" => ~IsSome(res) /\ pc # "done" /\ err_at = pc
    /\ err_at # "" => result \in {"err", "panic"}
    /\ IsSome(res) => PassNo(pc) > PassNo("resolution")

\* C4: resolve stops at the first pass that detects an error: it returns Err
\* and no Resolution, no pass runs after the failing one, the passes run in
\* the order of the source, and Ok comes only after the last pass.
C4_StopsAtFirstError ==
    /\ []CallState
    /\ [][/\ result = "running"
          /\ \/ pc' = NextPass(pc) /\ result' \in {"running", "ok"}
             \/ pc' = pc /\ result' \in {"err", "panic"}]_vars

\* A pass after the Resolution was built threw: the call returned Err, the
\* types were built, the Resolution is gone.
C4_ErrAfterResolutionBuilt ==
    /\ result = "err" /\ err_at = "custom_attributes"
    /\ Len(types) = 2 /\ ~IsSome(res)

(***************************************************************************)
(* Shared handles.                                                         *)
(***************************************************************************)
\* The list of the Resolution that owns the cells of a kind; the Resolution
\* literal has no list of exported types.
RootList(r, kind) ==
    IF kind = "AssemblyRef" THEN r.assembly_references
    ELSE IF kind = "File" THEN r.files
    ELSE IF kind = "ModuleRef" THEN r.module_references
    ELSE <<>>

Owned(h) == \E k \in 1..Len(RootList(Unwrap(res), h.kind)) : RootList(Unwrap(res), h.kind)[k] = h

SharedKinds == {"AssemblyRef", "ModuleRef", "File", "ExportedType"}

\* The shared handles stored in the output.
StoredHandles ==
    {shared.type_refs[k].scope.at : k \in 1..Len(shared.type_refs)}
    \cup {Unwrap(shared.resources[k].implementation) :
             k \in {j \in 1..Len(shared.resources) : IsSome(shared.resources[j].implementation)}}
    \cup UNION {{Unwrap(types[t].methods[m].pinvoke).import_scope :
                    m \in {j \in 1..Len(types[t].methods) : IsSome(types[t].methods[j].pinvoke)}} :
                t \in 1..Len(types)}
    \cup UNION {{Unwrap(types[t].fields[f].pinvoke).import_scope :
                    f \in {j \in 1..Len(types[t].fields) : IsSome(types[t].fields[j].pinvoke)}} :
                t \in 1..Len(types)}
    \cup (IF IsSome(res) /\ IsSome(Unwrap(res).entry_point)
          THEN {Unwrap(Unwrap(res).entry_point).file}
          ELSE {})

\* C5: after resolve returns Ok, every shared handle stored in the output is
\* an element of the list of its kind owned by the Resolution, and so is every
\* exported type built from the ExportedType table.
C5_SharedHandlesOwnedByRoot ==
    result = "ok" =>
        /\ \A h \in StoredHandles : h.kind \in SharedKinds => Owned(h)
        /\ \A k \in 1..Len(shared.exports) : Owned(Handle("ExportedType", k - 1))

(***************************************************************************)
(* Nested classes.                                                         *)
(***************************************************************************)
InRows(r, tbl) == r >= 1 /\ r <= Len(tbl)

BadNestedClass(n) ==
    \/ ~InRows(n.nested_class, tables.type_def)
    \/ ~InRows(n.enclosing_class, tables.type_def)
    \/ n.nested_class = n.enclosing_class

\* C8: after resolve returns Ok, every type named as nested_class by a
\* NestedClass row has an encloser Some(e) with e < len(types) and e # n; a
\* row with an index out of range, or naming a type as enclosing itself,
\* makes resolve return an error.
C8_EncloserIsAnotherType ==
    /\ result = "ok" =>
           \A k \in 1..Len(tables.nested_class) :
               LET n == tables.nested_class[k].nested_class - 1 IN
               /\ InVec(types, n)
               /\ IsSome(At(types, n).encloser)
               /\ Unwrap(At(types, n).encloser) < Len(types)
               /\ Unwrap(At(types, n).encloser) # n
    /\ (\E k \in 1..Len(tables.nested_class) : BadNestedClass(tables.nested_class[k]))
           => result \in {"running", "err"}

(***************************************************************************)
(* The indexes the resolver consumes.                                      *)
(***************************************************************************)
\* The table a coded index of a tag points into.
TableOf(tag) ==
    CASE tag = "MethodDef" -> tables.method_def
      [] tag = "Field" -> tables.field
      [] tag = "TypeRef" -> tables.type_ref
      [] tag = "TypeDef" -> tables.type_def
      [] tag = "Param" -> tables.param
      [] tag = "InterfaceImpl" -> tables.interface_impl
      [] tag = "MemberRef" -> tables.member_ref
      [] tag = "Module" -> tables.module
      [] tag = "DeclSecurity" -> tables.decl_security
      [] tag = "Property" -> tables.property
      [] tag = "Event" -> tables.event
      [] tag = "StandAloneSig" -> tables.stand_alone_sig
      [] tag = "ModuleRef" -> tables.module_ref
      [] tag = "TypeSpec" -> tables.type_spec
      [] tag = "Assembly" -> tables.assembly
      [] tag = "AssemblyRef" -> tables.assembly_ref
      [] tag = "File" -> tables.file
      [] tag = "ExportedType" -> tables.exported_type
      [] tag = "ManifestResource" -> tables.manifest_resource
      [] tag = "GenericParam" -> tables.generic_param
      [] tag = "GenericParamConstraint" -> tables.generic_param_constraint
      [] tag = "MethodSpec" -> tables.method_spec
      [] OTHER -> <<>>

\* A coded index names a row of its table (none of these consumers takes Null).
CodedInRows(c) == InRows(c.row, TableOf(c.tag))

\* A local-variable signature token: absent (0), or a StandAloneSig row.
TokenInRows(tok) ==
    \/ tok = Token("Module", 0)
    \/ tok.table = "StandAloneSig" /\ InRows(tok.index, tables.stand_alone_sig)

IndexesInRows ==
    /\ \A k \in 1..Len(tables.nested_class) :
           /\ InRows(tables.nested_class[k].nested_class, tables.type_def)
           /\ InRows(tables.nested_class[k].enclosing_class, tables.type_def)
    /\ \A k \in 1..Len(tables.interface_impl) :
           InRows(tables.interface_impl[k].class, tables.type_def)
    /\ \A k \in 1..Len(tables.field_layout) :
           InRows(tables.field_layout[k].field, tables.field)
    /\ \A k \in 1..Len(tables.impl_map) :
           /\ CodedInRows(tables.impl_map[k].member_forwarded)
           /\ InRows(tables.impl_map[k].import_scope, tables.module_ref)
    /\ \A k \in 1..Len(tables.decl_security) : CodedInRows(tables.decl_security[k].parent)
    /\ \A k \in 1..Len(tables.generic_param) : CodedInRows(tables.generic_param[k].owner)
    /\ \A k \in 1..Len(tables.generic_param_constraint) :
           InRows(tables.generic_param_constraint[k].owner, tables.generic_param)
    /\ \A k \in 1..Len(tables.property_map) :
           InRows(tables.property_map[k].parent, tables.type_def)
    /\ \A k \in 1..Len(tables.event_map) :
           InRows(tables.event_map[k].parent, tables.type_def)
    /\ \A k \in 1..Len(tables.method_semantics) :
           /\ InRows(tables.method_semantics[k].method, tables.method_def)
           /\ CodedInRows(tables.method_semantics[k].association)
    /\ \A k \in 1..Len(tables.method_impl) :
           InRows(tables.method_impl[k].class, tables.type_def)
    /\ \A k \in 1..Len(tables.custom_attribute) :
           /\ CodedInRows(tables.custom_attribute[k].parent)
           /\ CodedInRows(tables.custom_attribute[k].attr_type)
    /\ \A k \in 1..Len(tables.method_def) :
           (tables.method_def[k].rva # 0 /\ tables.method_def[k].body.fat /\ ~opts.skip_method_bodies)
               => TokenInRows(tables.method_def[k].body.local_var_sig_tok)

\* C10: every simple or coded index the resolver consumes is null where the
\* consumer tolerates absence or a row number in 1..=rowCount of its table;
\* any other value makes resolve return an error.
C10_IndexOutOfRowsIsAnError ==
    ~IndexesInRows => result \in {"running", "err"}

(***************************************************************************)
(* Scenario: the list columns that partition Field, MethodDef, Param,      *)
(* Property and Event take any value up to MaxList (past the end of the    *)
(* two-row tables) or, for MethodDef, MaxList + 3; or a map table is       *)
(* empty.  Both build profiles.                                            *)
(***************************************************************************)
Lists == 0..MaxList

RangeTables ==
    {[Base EXCEPT !.type_def[1].field_list = a, !.type_def[2].field_list = b] :
        a \in Lists, b \in Lists}
    \cup {[Base EXCEPT !.type_def[1].method_list = a, !.type_def[2].method_list = b] :
             a \in 0..(MaxList + 3), b \in 0..(MaxList + 3)}
    \cup {[Base EXCEPT !.param = <<[sequence |-> 1], [sequence |-> q]>>,
                       !.method_def[1].num_params = 2,
                       !.method_def[1].param_list = a,
                       !.method_def[2].param_list = b,
                       !.method_def[3].param_list = 3,
                       !.method_def[4].param_list = 3,
                       !.method_def[5].param_list = 3] :
             a \in Lists, b \in Lists, q \in 0..2}
    \cup {[Base EXCEPT !.property = <<[flags |-> 0], [flags |-> 0]>>,
                       !.property_map = <<[parent |-> 1, property_list |-> a],
                                          [parent |-> 2, property_list |-> b]>>] :
             a \in Lists, b \in Lists}
    \cup {[Base EXCEPT !.property_map = <<>>]}
    \cup {[Base EXCEPT !.event_map = <<[parent |-> 1, event_list |-> a]>>] : a \in Lists}
    \cup {[Base EXCEPT !.event_map = <<>>, !.method_semantics = <<>>]}

RangesInit ==
    \E tbl \in RangeTables, oc \in BOOLEAN :
        Called(tbl, AllStreams, Token("Module", 0), FALSE, oc)

SpecRanges == RangesInit /\ [][Next]_vars

\* Rows [lists[i] - 1, lists[i + 1] - 1) of a table of len rows, the last
\* range running to the end of the table.
RangeFrom(lists, i) == lists[i] - 1
RangeTo(lists, i, len) == IF i < Len(lists) THEN lists[i + 1] - 1 ELSE len
ExpectedRows(lists, i, len) ==
    [k \in 1..(RangeTo(lists, i, len) - RangeFrom(lists, i)) |-> RangeFrom(lists, i) + k - 1]

\* Some range is reversed or reaches past the end of the table.
BadRange(lists, len) ==
    \E i \in 1..Len(lists) :
        \/ RangeFrom(lists, i) > RangeTo(lists, i, len)
        \/ RangeTo(lists, i, len) > len

\* C6: before method extraction the fields (methods) of type i are exactly
\* the Field (MethodDef) rows [fieldList_i - 1, fieldList_{i+1} - 1), the
\* last range running to the end of the table, in table order; a range that
\* is reversed or reaches past the end makes resolve return an error.
C6_TypesOwnTheirListRanges ==
    /\ PassNo(pc) > PassNo("fields") =>
           \A i \in 1..Len(tables.type_def) :
               RowsOf(types[i].fields) =
                   ExpectedRows(Column(tables.type_def, "field_list"), i, Len(tables.field))
    /\ (PassNo(pc) > PassNo("methods") /\ PassNo(pc) <= PassNo("events")) =>
           \A i \in 1..Len(tables.type_def) :
               RowsOf(types[i].methods) =
                   ExpectedRows(Column(tables.type_def, "method_list"), i, Len(tables.method_def))
    /\ (\/ BadRange(Column(tables.type_def, "field_list"), Len(tables.field))
        \/ BadRange(Column(tables.type_def, "method_list"), Len(tables.method_def)))
           => result \in {"running", "err"} /\ PassNo(pc) <= PassNo("ranges")

Sum(ns) ==
    LET F[k \in 0..Len(ns)] == IF k = 0 THEN 0 ELSE F[k - 1] + ns[k]
    IN  F[Len(ns)]

FilledSlots(m) ==
    Cardinality({k \in 1..Len(m.parameter_metadata) : IsSome(m.parameter_metadata[k])})

\* C7: after resolve returns Ok, the fields of all types number the Field
\* rows, the filled parameter_metadata slots of all methods the Param rows,
\* the properties and the events of all types the Property and Event rows,
\* whatever the list columns are.
C7_EveryRowOwnedOnce ==
    result = "ok" =>
        /\ Sum([t \in 1..Len(types) |-> Len(types[t].fields)]) = Len(tables.field)
        /\ Sum([k \in 1..Len(HeldMethods(types)) |-> FilledSlots(HeldMethods(types)[k])])
               = Len(tables.param)
        /\ Sum([t \in 1..Len(types) |-> Len(types[t].properties)]) = Len(tables.property)
        /\ Sum([t \in 1..Len(types) |-> Len(types[t].events)]) = Len(tables.event)

(***************************************************************************)
(* Scenario: up to MaxGeneric GenericParam rows, in any order and with any *)
(* number up to MaxNumber.  The rows are owned by type 0 or by method 0    *)
(* (which becomes an add listener), mixed in any way, or all by method 2   *)
(* (which stays in the top-level list).                                    *)
(***************************************************************************)
GenericRows ==
    {[number |-> n, flags |-> 0, owner |-> o] :
        n \in 0..MaxNumber, o \in {Coded("TypeDef", 1), Coded("MethodDef", 1)}}

GenericRowsOfMethod ==
    {[number |-> n, flags |-> 0, owner |-> Coded("MethodDef", 3)] : n \in 0..MaxNumber}

GenericsInit ==
    \E rows \in SeqUpTo(GenericRows, MaxGeneric) \cup SeqUpTo(GenericRowsOfMethod, MaxGeneric) :
        Called([Base EXCEPT !.generic_param = rows], AllStreams,
               Token("Module", 0), FALSE, TRUE)

SpecGenerics == GenericsInit /\ [][Next]_vars

\* The generic parameter lists of every owner in the output.
GenericLists ==
    {types[t].generic_parameters : t \in 1..Len(types)}
    \cup {HeldMethods(types)[k].generic_parameters : k \in 1..Len(HeldMethods(types))}

\* C9 as claimed: after resolve returns Ok, the generic parameters of every
\* owner are sorted by sequence in strictly ascending order, for any
\* GenericParam rows.
C9_StrictlyAscending ==
    result = "ok" =>
        \A gs \in GenericLists :
            \A i \in 1..Len(gs), j \in 1..Len(gs) : i < j => gs[i].sequence < gs[j].sequence

\* C9 as amended: after resolve returns Ok, the generic parameters of every
\* owner are sorted by sequence in ascending order, parameters of equal
\* sequence staying in table order (so the order is strict when the numbers
\* of the owner's rows are distinct).
C9_AscendingTiesInTableOrder ==
    result = "ok" =>
        \A gs \in GenericLists :
            \A i \in 1..Len(gs), j \in 1..Len(gs) :
                i < j => \/ gs[i].sequence < gs[j].sequence
                         \/ gs[i].sequence = gs[j].sequence /\ gs[i].row < gs[j].row

\* An add listener came out with three generic parameters, two of equal
\* sequence, the sort having moved the first row behind the others.
C9_SortedWithTie ==
    /\ result = "ok"
    /\ LET gs == types[1].events[1].add_listener.generic_parameters IN
       /\ Len(gs) = 3
       /\ gs[1].sequence = gs[2].sequence
       /\ gs[3].row < gs[1].row

(***************************************************************************)
(* Scenario: up to two GenericParam rows with any flags up to MaxFlags,    *)
(* owned by type 0 or by method 0.                                         *)
(***************************************************************************)
FlaggedGenericRows ==
    {[number |-> 0, flags |-> f, owner |-> o] :
        f \in 0..MaxFlags, o \in {Coded("TypeDef", 1), Coded("MethodDef", 1)}}

VarianceInit ==
    \E rows \in SeqUpTo(FlaggedGenericRows, 2) :
        Called([Base EXCEPT !.generic_param = rows], AllStreams,
               Token("Module", 0), FALSE, TRUE)

SpecVariance == VarianceInit /\ [][Next]_vars

\* The variance the flags of a GenericParam row stand for.
DecodedVariance(flags) ==
    IF flags % 4 = 0 THEN "Invariant"
    ELSE IF flags % 4 = 1 THEN "Covariant"
    ELSE IF flags % 4 = 2 THEN "Contravariant"
    ELSE "invalid"

\* C11: for every GenericParam row the resolved variance is decoded from
\* flags & 0x3 as 0x0 -> Invariant, 0x1 -> Covariant, 0x2 -> Contravariant,
\* and a row with 0x3 makes resolve return an error (in the generic
\* parameter pass, the call going no further).
C11_VarianceDecoded ==
    /\ result = "ok" =>
           \A gs \in GenericLists : \A i \in 1..Len(gs) :
               gs[i].variance = DecodedVariance(tables.generic_param[gs[i].row + 1].flags)
    /\ (\E k \in 1..Len(tables.generic_param) :
            DecodedVariance(tables.generic_param[k].flags) = "invalid")
       => \/ result = "running" /\ PassNo(pc) <= PassNo("generic_params")
          \/ result = "err" /\ err_at = "generic_params"

(***************************************************************************)
(* The MethodSemantics rows of the image.  The event pass removes from     *)
(* tables.method_semantics the two listener rows of the event, which are   *)
(* the first two rows of the table in the MethodSemantics scenario.        *)
(***************************************************************************)
ImageSemantics ==
    IF PassNo(pc) > PassNo("events")
    THEN SubSeq(Base.method_semantics, 1, 2) \o tables.method_semantics
    ELSE tables.method_semantics

\* The rows claiming a role (one flag) on an association, in table order.
Claimants(flag, assoc) ==
    SelectSeq(ImageSemantics,
              LAMBDA s : HasBit(s.semantics, flag) /\ s.association = assoc)

\* The roles that have one slot, with the slot's content (an Option).
SingleRoles ==
    {<<SemSetter, Coded("Property", 1)>>, <<SemGetter, Coded("Property", 1)>>,
     <<SemAddOn, Coded("Event", 1)>>, <<SemRemoveOn, Coded("Event", 1)>>,
     <<SemFire, Coded("Event", 1)>>}

RoleSlot(role) ==
    IF role[1] = SemSetter THEN types[1].properties[1].setter
    ELSE IF role[1] = SemGetter THEN types[1].properties[1].getter
    ELSE IF role[1] = SemAddOn THEN Some(types[1].events[1].add_listener)
    ELSE IF role[1] = SemRemoveOn THEN Some(types[1].events[1].remove_listener)
    ELSE types[1].events[1].raise_event

\* MethodDef row g (0-based) is where the methods pass put it: in the
\* top-level list of its type, the lookup designating it there.
StaysTopLevel(g) ==
    LET mi == At(methods, g) IN
    /\ mi.member.kind = "Method"
    /\ InVec(types, mi.parent_type)
    /\ InVec(At(types, mi.parent_type).methods, mi.member.idx)
    /\ At(At(types, mi.parent_type).methods, mi.member.idx).row = g

\* C12: when two or more MethodSemantics rows claim the same role on the same
\* property or event, the method of the first such row occupies the slot and
\* every later such row is ignored: its method (when no other row names it)
\* stays in its type's top-level list and the lookup still designates it.
C12_FirstClaimantWins ==
    result = "ok" =>
        \A role \in SingleRoles :
            LET c == Claimants(role[1], role[2]) IN
            Len(c) >= 2 =>
                /\ IsSome(RoleSlot(role))
                /\ Unwrap(RoleSlot(role)).row = c[1].method - 1
                /\ \A k \in 2..Len(c) :
                       Cardinality({j \in 1..Len(ImageSemantics) :
                                       ImageSemantics[j].method = c[k].method}) = 1
                           => StaysTopLevel(c[k].method - 1)

\* A MethodSemantics row whose flags hold no role handled for its
\* association: neither Setter, Getter, Other for a property, nor AddOn,
\* RemoveOn, Fire, Other for an event.
NoRole(s) ==
    IF s.association.tag = "Property"
    THEN ~HasBit(s.semantics, SemSetter) /\ ~HasBit(s.semantics, SemGetter)
         /\ ~HasBit(s.semantics, SemOther)
    ELSE ~HasBit(s.semantics, SemAddOn) /\ ~HasBit(s.semantics, SemRemoveOn)
         /\ ~HasBit(s.semantics, SemFire) /\ ~HasBit(s.semantics, SemOther)

\* C13: a MethodSemantics row whose flags match none of the roles handled for
\* its association is silently ignored: it raises no error (a table whose
\* rows beyond the listeners are all such rows resolves to Ok), and its
\* method (when no other row names it) stays at its position in its type's
\* top-level list, the lookup designating it there.
C13_RowWithoutRoleIsIgnored ==
    LET rows == ImageSemantics IN
    /\ (\A k \in 3..Len(rows) : NoRole(rows[k])) => result \in {"running", "ok"}
    /\ result = "ok" =>
           \A k \in 3..Len(rows) :
               (/\ NoRole(rows[k])
                /\ Cardinality({j \in 1..Len(rows) : rows[j].method = rows[k].method}) = 1)
                   => StaysTopLevel(rows[k].method - 1)

(***************************************************************************)
(* Scenario: one of the FieldLayout, FieldRVA, FieldMarshal, Constant and  *)
(* ImplMap tables holds up to MaxDup valid rows, several of which may      *)
(* target the same field, parameter, property or method.                   *)
(***************************************************************************)
LayoutRows == {[field |-> f, offset |-> o] : f \in {1, 2}, o \in {0, 4}}

RvaRows == {[field |-> f, rva |-> r, mapped |-> TRUE] : f \in {1, 2}, r \in {1, 2}}

MarshalRows == {[parent |-> p] : p \in {Coded("Field", 1), Coded("Field", 2), Coded("Param", 1)}}

ConstantRows ==
    {[parent |-> p] : p \in {Coded("Field", 1), Coded("Param", 1), Coded("Property", 1)}}

ImplMapRows ==
    {[mapping_flags |-> CallConvUnit, import_scope |-> 1, member_forwarded |-> m] :
        m \in {Coded("Field", 1), Coded("MethodDef", 1), Coded("MethodDef", 3)}}

AttachTables ==
    {[Base EXCEPT !.field_layout = rows] : rows \in SeqUpTo(LayoutRows, MaxDup)}
    \cup {[Base EXCEPT !.field_rva = rows] : rows \in SeqUpTo(RvaRows, MaxDup)}
    \cup {[Base EXCEPT !.field_marshal = rows] : rows \in SeqUpTo(MarshalRows, MaxDup)}
    \cup {[Base EXCEPT !.constant = rows] : rows \in SeqUpTo(ConstantRows, MaxDup)}
    \cup {[Base EXCEPT !.impl_map = rows] : rows \in SeqUpTo(ImplMapRows, MaxDup)}

AttachInit ==
    \E tbl \in AttachTables :
        Called(tbl, AllStreams, Token("Module", 0), FALSE, TRUE)

SpecAttach == AttachInit /\ [][Next]_vars

\* The fields, parameters and properties the output holds.
HeldFields == Flatten([t \in 1..Len(types) |-> types[t].fields])

HeldParams ==
    Flatten([k \in 1..Len(HeldMethods(types)) |->
                Flatten([j \in 1..Len(HeldMethods(types)[k].parameter_metadata) |->
                            HeldMethods(types)[k].parameter_metadata[j]])])

HeldProperties == Flatten([t \in 1..Len(types) |-> types[t].properties])

\* The last row of a table (1-based, 0 when there is none) whose column col
\* is target.
LastRow(rows, col, target) ==
    LET S == {k \in 1..Len(rows) : rows[k][col] = target} IN
    IF S = {} THEN 0 ELSE CHOOSE k \in S : \A j \in S : j <= k

\* The attachment an entity ends up with when the last row wins: nothing
\* without a row, else the value made from that row.
LastRowIndex(rows, col, target) ==
    IF LastRow(rows, col, target) = 0 THEN None ELSE Some(LastRow(rows, col, target) - 1)

LastPInvoke(target) ==
    LET k == LastRow(tables.impl_map, "member_forwarded", target) IN
    IF k = 0 THEN None
    ELSE Some([row |-> k - 1,
               import_scope |-> Handle("ModuleRef", tables.impl_map[k].import_scope - 1)])

\* C14: when several FieldLayout, FieldRVA, FieldMarshal, Constant or ImplMap
\* rows target the same field, parameter, property or method, resolve does
\* not fail on the duplication, and the target ends up holding the value of
\* the last such row in table order.
C14_LastRowWins ==
    /\ result \in {"running", "ok"}
    /\ result = "ok" =>
        /\ \A i \in 1..Len(HeldFields) :
            LET f == HeldFields[i]
                l == LastRow(tables.field_layout, "field", f.row + 1)
                r == LastRow(tables.field_rva, "field", f.row + 1)
            IN  /\ f.offset = IF l = 0 THEN None ELSE Some(tables.field_layout[l].offset)
                /\ f.start_of_initial_value = IF r = 0 THEN None ELSE Some(tables.field_rva[r].rva)
                /\ f.marshal = LastRowIndex(tables.field_marshal, "parent", Coded("Field", f.row + 1))
                /\ f.default = LastRowIndex(tables.constant, "parent", Coded("Field", f.row + 1))
                /\ f.pinvoke = LastPInvoke(Coded("Field", f.row + 1))
        /\ \A i \in 1..Len(HeldParams) :
            LET p == HeldParams[i] IN
                /\ p.marshal = LastRowIndex(tables.field_marshal, "parent", Coded("Param", p.row + 1))
                /\ p.default = LastRowIndex(tables.constant, "parent", Coded("Param", p.row + 1))
        /\ \A i \in 1..Len(HeldProperties) :
            HeldProperties[i].default =
                LastRowIndex(tables.constant, "parent", Coded("Property", HeldProperties[i].row + 1))
        /\ \A i \in 1..Len(HeldMethods(types)) :
            HeldMethods(types)[i].pinvoke =
                LastPInvoke(Coded("MethodDef", HeldMethods(types)[i].row + 1))

\* resolve returned Ok for a FieldLayout table whose first two rows give one
\* field two different offsets.
C14_FieldLaidOutTwice ==
    /\ result = "ok"
    /\ Len(tables.field_layout) >= 2
    /\ tables.field_layout[1].field = tables.field_layout[2].field
    /\ tables.field_layout[1].offset # tables.field_layout[2].offset

(***************************************************************************)
(* Scenario: an image with one DeclSecurity row, one GenericParam row and  *)
(* one GenericParamConstraint row, whose CustomAttribute table holds a row *)
(* with any kind of parent (row 1 of the parent's table, or Null),         *)
(* followed by up to MaxFollow rows; every constructor is MethodDef row 3. *)
(***************************************************************************)
AttributeBase ==
    [Base EXCEPT !.generic_param = <<[number |-> 0, flags |-> 0, owner |-> Coded("TypeDef", 1)]>>,
                 !.generic_param_constraint = <<[owner |-> 1]>>,
                 !.decl_security = <<[parent |-> Coded("TypeDef", 1)]>>]

AttributeRow(tag) ==
    [parent |-> IF tag = "Null" THEN Null ELSE Coded(tag, 1),
     attr_type |-> Coded("MethodDef", 3)]

AttributeTables ==
    {[AttributeBase EXCEPT !.custom_attribute = <<AttributeRow(t)>> \o rest] :
        t \in ParentTags,
        rest \in SeqUpTo({AttributeRow(f) : f \in {"TypeDef", "Field", "MethodSpec"}}, MaxFollow)}

AttributesInit ==
    \E tbl \in AttributeTables \cup {AttributeBase} :
        Called(tbl, AllStreams, Token("Module", 0), FALSE, TRUE)

SpecAttributes == AttributesInit /\ [][Next]_vars

\* The parents for which the output has no slot.
UnsupportedParents == {"MethodSpec", "StandAloneSig", "TypeSpec"}

\* The attributes of the entries of seq built from row g.
AttributesOfRow(seq, g) ==
    Flatten([k \in 1..Len(seq) |-> IF seq[k].row = g THEN seq[k].attributes ELSE <<>>])

AttributesOfAll(seq) == Flatten([k \in 1..Len(seq) |-> seq[k].attributes])

HeldEvents == Flatten([t \in 1..Len(types) |-> types[t].events])

HeldImplements == Flatten([t \in 1..Len(types) |-> types[t].implements])

HeldGenerics ==
    Flatten([t \in 1..Len(types) |-> types[t].generic_parameters])
    \o Flatten([k \in 1..Len(HeldMethods(types)) |-> HeldMethods(types)[k].generic_parameters])

HeldConstraints == Flatten([k \in 1..Len(HeldGenerics) |-> HeldGenerics[k].type_constraints])

HeldSecurity ==
    Flatten([t \in 1..Len(types) |-> OptionSeq(types[t].security)])
    \o Flatten([k \in 1..Len(HeldMethods(types)) |-> OptionSeq(HeldMethods(types)[k].security)])
    \o (IF IsSome(assembly) THEN OptionSeq(Unwrap(assembly).security) ELSE <<>>)

\* The implements entry of InterfaceImpl row r (1-based): the entries of a
\* type are in table order.
ImplementsOf(r) ==
    LET c == tables.interface_impl[r].class
        pos == Cardinality({j \in 1..r : tables.interface_impl[j].class = c})
    IN  types[c].implements[pos]

\* The attributes of the entity a parent index designates.
AttributesOf(parent) ==
    LET tag == parent.tag
        g == parent.row - 1
    IN  IF tag = "MethodDef" THEN AttributesOfRow(HeldMethods(types), g)
        ELSE IF tag = "Field" THEN AttributesOfRow(HeldFields, g)
        ELSE IF tag = "TypeDef" THEN AttributesOfRow(types, g)
        ELSE IF tag = "Param" THEN AttributesOfRow(HeldParams, g)
        ELSE IF tag = "Property" THEN AttributesOfRow(HeldProperties, g)
        ELSE IF tag = "Event" THEN AttributesOfRow(HeldEvents, g)
        ELSE IF tag = "InterfaceImpl" THEN ImplementsOf(parent.row).attributes
        ELSE IF tag = "MemberRef" THEN AttributesOfRow(refs.field_refs \o refs.method_refs, g)
        ELSE IF tag = "DeclSecurity" THEN AttributesOfRow(HeldSecurity, g)
        ELSE IF tag = "GenericParam" THEN AttributesOfRow(HeldGenerics, g)
        ELSE IF tag = "GenericParamConstraint" THEN AttributesOfRow(HeldConstraints, g)
        ELSE IF tag = "TypeRef" THEN shared.type_refs[parent.row].attributes
        ELSE IF tag = "ModuleRef" THEN shared.module_refs[parent.row].attributes
        ELSE IF tag = "AssemblyRef" THEN shared.assembly_refs[parent.row].attributes
        ELSE IF tag = "File" THEN shared.files[parent.row].attributes
        ELSE IF tag = "ExportedType" THEN shared.exports[parent.row].attributes
        ELSE IF tag = "ManifestResource" THEN shared.resources[parent.row].attributes
        ELSE IF tag = "Module" THEN Unwrap(shared.module).attributes
        ELSE IF tag = "Assembly" THEN Unwrap(assembly).attributes
        ELSE <<>>

\* Every attribute the output holds, on whatever entity.
AllAttributes ==
    AttributesOfAll(HeldMethods(types)) \o AttributesOfAll(HeldFields)
    \o AttributesOfAll(types) \o AttributesOfAll(HeldParams)
    \o AttributesOfAll(HeldProperties) \o AttributesOfAll(HeldEvents)
    \o AttributesOfAll(HeldImplements) \o AttributesOfAll(refs.field_refs)
    \o AttributesOfAll(refs.method_refs) \o AttributesOfAll(HeldSecurity)
    \o AttributesOfAll(HeldGenerics) \o AttributesOfAll(HeldConstraints)
    \o AttributesOfAll(shared.type_refs) \o AttributesOfAll(shared.module_refs)
    \o AttributesOfAll(shared.assembly_refs) \o AttributesOfAll(shared.files)
    \o AttributesOfAll(shared.exports) \o AttributesOfAll(shared.resources)
    \o AttributesOfAll(shared.module) \o AttributesOfAll(assembly)

\* C15: a CustomAttribute row (with a valid constructor) whose parent is a
\* MethodSpec, StandAloneSig or TypeSpec causes no error and adds no attribute
\* to any entity, and the following rows are still processed; a Null parent
\* makes resolve return an error; every other parent gets the attribute
\* appended to its attributes.
C15_AttributesReachTheirParents ==
    LET rows == tables.custom_attribute IN
    /\ IF \E k \in 1..Len(rows) : rows[k].parent = Null
       THEN \/ result = "running" /\ PassNo(pc) <= PassNo("custom_attributes")
            \/ result = "err" /\ err_at = "custom_attributes"
       ELSE result \in {"running", "ok"}
    /\ PassNo(pc) > PassNo("custom_attributes") =>
           \A k \in 1..Len(rows) :
               IF rows[k].parent.tag \in UnsupportedParents
               THEN Count(AllAttributes, [row |-> k - 1]) = 0
               ELSE /\ Count(AllAttributes, [row |-> k - 1]) = 1
                    /\ Count(AttributesOf(rows[k].parent), [row |-> k - 1]) = 1

\* resolve returned Ok for a table whose first row has an unsupported parent
\* and whose second row reached its type.
C15_RowAfterDroppedRow ==
    /\ result = "ok"
    /\ Len(tables.custom_attribute) = 2
    /\ tables.custom_attribute[1].parent.tag = "TypeSpec"
    /\ tables.custom_attribute[2].parent = Coded("TypeDef", 1)
    /\ types[1].attributes = <<[row |-> 1]>>

(***************************************************************************)
(* The entry point.                                                        *)
(***************************************************************************)
\* The entry-point token names a row of the MethodDef or of the File table.
EntryTokenInRows ==
    LET tok == cli.entry_point_token IN
    \/ tok.table = "MethodDef" /\ tok.index \in 1..Len(tables.method_def)
    \/ tok.table = "File" /\ tok.index \in 1..Len(tables.file)

\* C16: the resolved entry point is None exactly when the token's row index
\* is 0; for a MethodDef token with row i in 1..=methodCount it is the method
\* handle of row i as it stands after all method extraction; for a File token
\* with row i in 1..=fileCount it is the shared handle of file i; a token of
\* any other table, or a row number beyond the table, makes resolve return
\* an error.
C16_EntryPointFollowsToken ==
    LET tok == cli.entry_point_token IN
    /\ (tok.index # 0 /\ ~EntryTokenInRows)
       => \/ result = "running" /\ PassNo(pc) <= PassNo("resolution")
          \/ result = "err" /\ err_at = "resolution"
    /\ IsSome(res) =>
        LET e == Unwrap(res).entry_point IN
        /\ (e = None) <=> (tok.index = 0)
        /\ (tok.index # 0 /\ tok.table = "MethodDef") =>
               /\ Unwrap(e).kind = "Method"
               /\ Unwrap(e).method = At(methods, tok.index - 1)
        /\ (tok.index # 0 /\ tok.table = "File") =>
               /\ Unwrap(e).kind = "File"
               /\ Unwrap(e).file = Handle("File", tok.index - 1)
               /\ Unwrap(e).file \in {Unwrap(res).files[k] : k \in 1..Len(Unwrap(res).files)}

\* resolve returned Ok with the entry point designating MethodDef row 1,
\* which the event pass had moved into the add slot of an event.
C16_EntryPointIsExtractedMethod ==
    /\ result = "ok"
    /\ cli.entry_point_token = Token("MethodDef", 1)
    /\ Unwrap(Unwrap(res).entry_point).method = MethodIndex(0, EventAdd(0))

(***************************************************************************)
(* Method bodies and skip_method_bodies.                                   *)
(***************************************************************************)
\* The types with every method body taken out.
WithoutBodies(tys) ==
    LET Bare(ms) == [k \in 1..Len(ms) |-> [ms[k] EXCEPT !.body = None]]
        BareOption(o) == IF IsSome(o) THEN Some([Unwrap(o) EXCEPT !.body = None]) ELSE o
    IN  [t \in 1..Len(tys) |->
            [tys[t] EXCEPT
                !.methods = Bare(@),
                !.properties = [k \in 1..Len(@) |->
                                   [@[k] EXCEPT !.getter = BareOption(@), !.setter = BareOption(@),
                                                !.other = Bare(@)]],
                !.events = [k \in 1..Len(@) |->
                               [@[k] EXCEPT !.add_listener = [@ EXCEPT !.body = None],
                                            !.remove_listener = [@ EXCEPT !.body = None],
                                            !.raise_event = BareOption(@), !.other = Bare(@)]]]]

\* C17: with skip_method_bodies set, resolve reads no method body, every
\* method of the output has body None, and every other part of the
\* Resolution equals what resolve produces without the flag; without the
\* flag a method has a body exactly when its MethodDef row has a nonzero RVA.
C17_BodiesFollowFlagAndRva ==
    /\ result = "ok" =>
           \A k \in 1..Len(HeldMethods(types)) :
               LET m == HeldMethods(types)[k] IN
               IsSome(m.body) <=> (~opts.skip_method_bodies /\ tables.method_def[m.row + 1].rva # 0)
    /\ (result = "running" /\ pc = "method_bodies") =>
           LET with == MethodBodiesPass(types, methods, tables, TRUE)
               without == MethodBodiesPass(types, methods, tables, FALSE)
           IN  /\ with.st = "ok"
               /\ with.v = types
               /\ without.st = "ok" => WithoutBodies(without.v) = with.v

(***************************************************************************)
(* Scenario: the body of MethodDef row 5 (fat header) has up to MaxInstr   *)
(* instructions of one or two bytes and one exception clause, whose try    *)
(* block or whose handler block takes any byte offset up to MaxByte and    *)
(* any byte length below MaxByte, the other block being empty at offset 0. *)
(***************************************************************************)
ClauseKinds ==
    {[flags |-> f, class_token_or_filter |-> 0] : f \in {0, 2, 5}}
    \cup {[flags |-> 1, class_token_or_filter |-> b] : b \in 0..MaxByte}

Clauses ==
    {[flags |-> k.flags, class_token_or_filter |-> k.class_token_or_filter, class_ok |-> TRUE,
      try_offset |-> o, try_length |-> l, handler_offset |-> 0, handler_length |-> 0] :
        k \in ClauseKinds, o \in 0..MaxByte, l \in 0..(MaxByte - 1)}
    \cup
    {[flags |-> k.flags, class_token_or_filter |-> k.class_token_or_filter, class_ok |-> TRUE,
      try_offset |-> 0, try_length |-> 0, handler_offset |-> o, handler_length |-> l] :
        k \in ClauseKinds, o \in 0..MaxByte, l \in 0..(MaxByte - 1)}

BodiesInit ==
    \E sizes \in SeqUpTo({1, 2}, MaxInstr), h \in Clauses :
        Called([Base EXCEPT !.method_def[5].body.sizes = sizes,
                            !.method_def[5].body.clauses = <<h>>],
               AllStreams, Token("Module", 0), FALSE, TRUE)

SpecBodies == BodiesInit /\ [][Next]_vars

\* The bodies the output holds.
HeldBodies ==
    Flatten([k \in 1..Len(HeldMethods(types)) |-> HeldMethods(types)[k].body])

\* index is the instruction index that stands for a byte offset of the body
\* of MethodDef row g: the instruction at that byte, or the end of the body.
IndexOfByte(g, index, byte) ==
    LET offsets == InstrOffsets(tables.method_def[g + 1].body.sizes) IN
    /\ index \in 0..Len(offsets)
    /\ index < Len(offsets) => offsets[index + 1] = byte

ListenerRows ==
    {SemanticsRow(f, m, Coded("Event", 1)) :
        f \in {SemAddOn, SemRemoveOn, SemFire}, m \in {1, 2, 5}}

ListenersInit ==
    \E sems \in SeqUpTo(ListenerRows, MaxListener) :
        Called([Base EXCEPT !.method_semantics = sems], AllStreams,
               Token("Module", 0), FALSE, TRUE)

SpecListeners == ListenersInit /\ [][Next]_vars

\* The first row of sems (1-based) on event row e whose flags contain flag,
\* 0 when there is none.
FirstListener(sems, flag, e) ==
    LET is(k) == HasBit(sems[k].semantics, flag) /\ sems[k].association = Coded("Event", e + 1)
    IN  IF \E k \in 1..Len(sems) : is(k)
        THEN CHOOSE k \in 1..Len(sems) : is(k) /\ \A j \in 1..(k - 1) : ~is(j)
        ELSE 0

\* sems without the rows at positions a and b.
WithoutRows(sems, a, b) ==
    LET keep == {k \in 1..Len(sems) : k # a /\ k # b}
        F[k \in 0..Len(sems)] ==
            IF k = 0 THEN <<>>
            ELSE IF k \in keep THEN Append(F[k - 1], sems[k]) ELSE F[k - 1]
    IN  F[Len(sems)]

\* After the step, the slot method is the one built from MethodDef row g,
\* which is out of the top-level list of its own type, its lookup entry
\* being member.
ListenerOf(slot, g, member) ==
    /\ slot.row = g
    /\ \A k \in 1..Len(At(types', At(methods, g).parent_type).methods) :
           At(types', At(methods, g).parent_type).methods[k].row # g
    /\ At(methods', g).member = member

\* The events pass on event row e (every Event row is covered by the map).
ListenersOfEvent(e) ==
    LET sems == tables.method_semantics
        a == FirstListener(sems, SemAddOn, e)
        r == FirstListener(sems, SemRemoveOn, e)
    IN  IF a = 0 \/ r = 0 THEN result' = "err"
        ELSE /\ result' = "running" /\ pc' # pc
             /\ HasEvent(types', events'[e + 1])
             /\ LET at == events'[e + 1]
                    ev == At(At(types', at[1]).events, at[2])
                IN  /\ ev.row = e
                    /\ ListenerOf(ev.add_listener, sems[a].method - 1, EventAdd(at[2]))
                    /\ ListenerOf(ev.remove_listener, sems[r].method - 1, EventRemove(at[2]))
             /\ tables'.method_semantics = WithoutRows(sems, a, r)

\* C19: for each Event row covered by an EventMap, the events pass puts in
\* the event's add (resp. remove) slot the method built from the MethodDef
\* row named by the first MethodSemantics row on this event whose flags
\* contain AddOn (resp. RemoveOn); that method leaves the top-level list of
\* its own type, its lookup entry becomes EventAdd(eventPos) (resp.
\* EventRemove(eventPos)), and the consumed rows are no longer in the table
\* the remaining MethodSemantics pass reads; an event lacking either row
\* makes resolve return an error.
C19_ListenersAttached ==
    [][(pc = "events" /\ result = "running") =>
           \A e \in 0..(Len(tables.event) - 1) : ListenersOfEvent(e)]_vars

(***************************************************************************)
(* Scenario: the MemberRef table is any sequence of up to MaxRef rows      *)
(* whose parent is a TypeRef, a MethodDef or Null and whose signature      *)
(* parses as a field signature, as a method signature or as neither (the   *)
(* two forms start with different bytes).                                  *)
(***************************************************************************)
MemberRefRows ==
    {[class |-> c, field_sig |-> s = "field", method_sig |-> s = "method"] :
        c \in {Coded("TypeRef", 1), Coded("MethodDef", 1), Null},
        s \in {"field", "method", "neither"}}

MemberRefsInit ==
    \E rows \in SeqUpTo(MemberRefRows, MaxRef) :
        Called([Base EXCEPT !.member_ref = rows], AllStreams,
               Token("Module", 0), FALSE, TRUE)

SpecMemberRefs == MemberRefsInit /\ [][Next]_vars

\* The positions of vec (0-based) that hold original row o.
PositionsOf(vec, o) == {c \in 0..(Len(vec) - 1) : At(vec, c).row = o}

\* map sends every kept original row to its position in vec and no other
\* row anywhere, and vec is in table order.
MapsInOrder(map, vec) ==
    /\ \A o \in 0..(Len(map) - 1) :
           /\ At(map, o) # <<>> => PositionsOf(vec, o) = {At(map, o)[1]}
           /\ At(map, o) = <<>> => PositionsOf(vec, o) = {}
    /\ \A c, d \in 1..Len(vec) : c < d => vec[c].row < vec[d].row

\* A row no reference can be built from: a Null parent, or a field
\* signature on a MethodDef parent.
InvalidMemberRef(r) ==
    \/ r.class = Null
    \/ r.field_sig /\ r.class.tag = "MethodDef"

\* C20: once the member reference pass has run, every MemberRef row whose
\* signature parses is in exactly one of the two output vectors, the one of
\* the form that parses; fieldMap and methodMap send each kept original row
\* to its position, in table order; a row with a MethodDef parent is a
\* method reference; and no row with a Null parent, or with a field
\* signature on a MethodDef parent, has been passed over: such a row makes
\* resolve return an error.
C20_EveryMemberRefKeptOrRefused ==
    /\ err_at = "member_refs" => result = "err"
    /\ PassNo(pc) > PassNo("member_refs") =>
           /\ MapsInOrder(refs.field_map, refs.field_refs)
           /\ MapsInOrder(refs.method_map, refs.method_refs)
           /\ \A o \in 0..(Len(tables.member_ref) - 1) :
                  LET r == At(tables.member_ref, o) IN
                  r.field_sig \/ r.method_sig =>
                      /\ ~InvalidMemberRef(r)
                      /\ Cardinality(PositionsOf(refs.field_refs, o)) =
                             (IF r.field_sig THEN 1 ELSE 0)
                      /\ Cardinality(PositionsOf(refs.method_refs, o)) =
                             (IF r.method_sig THEN 1 ELSE 0)

(***************************************************************************)
(* Scenario: at most one MethodSemantics row beyond the two listeners, one *)
(* CustomAttribute row whose parent is a MethodDef row or Param row 1 (of  *)
(* MethodDef row 1), and one MethodDef row named by the entry-point token  *)
(* and by the parent of a vararg method reference.                         *)
(***************************************************************************)
RelocatedInit ==
    \E extra \in SeqUpTo(ExtraSemantics, 1),
       p \in {Coded("MethodDef", g) : g \in 1..5} \cup {Coded("Param", 1)},
       h \in 1..5 :
        Called([Base EXCEPT !.method_semantics = @ \o extra,
                            !.custom_attribute =
                                <<[parent |-> p, attr_type |-> Coded("MethodDef", 3)]>>,
                            !.member_ref = <<[class |-> Coded("MethodDef", h),
                                              field_sig |-> FALSE, method_sig |-> TRUE]>>],
               AllStreams, Token("MethodDef", h), FALSE, TRUE)

SpecRelocated == RelocatedInit /\ [][Next]_vars

\* C21: once the custom attribute pass has run, a CustomAttribute row whose
\* parent is MethodDef row g is among the attributes of the method built from
\* row g, and one whose parent is a Param row among those of the parameter
\* built from that row, wherever the event pass and the MethodSemantics pass
\* have put the method; and the MethodDef handle captured for a vararg parent
\* or for the entry point is the final lookup entry of its row.
C21_AttributesFollowRelocatedMethods ==
    /\ PassNo(pc) > PassNo("custom_attributes") =>
           \A k \in 1..Len(tables.custom_attribute) :
               tables.custom_attribute[k].parent.tag \in {"MethodDef", "Param"} =>
                   Count(AttributesOf(tables.custom_attribute[k].parent), [row |-> k - 1]) = 1
    /\ PassNo(pc) > PassNo("member_refs") =>
           \A c \in 1..Len(refs.method_refs) :
               LET r == At(tables.member_ref, refs.method_refs[c].row) IN
               r.class.tag = "MethodDef" =>
                   refs.method_refs[c].parent = Some(At(methods, r.class.row - 1))
    /\ (IsSome(res) /\ cli.entry_point_token.table = "MethodDef"
        /\ cli.entry_point_token.index # 0) =>
           Unwrap(Unwrap(res).entry_point).method = At(methods, cli.entry_point_token.index - 1)

(***************************************************************************)
(* Scenario: the list columns cover every row, or the first fieldList,     *)
(* methodList or paramList is 2, or the PropertyMap or the EventMap table  *)
(* is empty; and a FieldLayout row, a CustomAttribute row or a             *)
(* MethodSemantics row names row 1 of one of the five tables.              *)
(***************************************************************************)
ListTables ==
    {Base,
     [Base EXCEPT !.type_def[1].field_list = 2],
     [Base EXCEPT !.type_def[1].method_list = 2],
     [Base EXCEPT !.method_def[1].param_list = 2],
     [Base EXCEPT !.property_map = <<>>],
     [Base EXCEPT !.event_map = <<>>, !.method_semantics = <<>>]}

LookupReaders(tbl) ==
    {tbl}
    \cup {[tbl EXCEPT !.field_layout = <<[field |-> r, offset |-> 8]>>] : r \in 1..2}
    \cup {[tbl EXCEPT !.custom_attribute = <<[parent |-> Coded(t, 1),
                                             attr_type |-> Coded("MethodDef", 3)]>>] :
             t \in {"Field", "MethodDef", "Param", "Property", "Event"}}
    \cup {[tbl EXCEPT !.method_semantics = @ \o <<SemanticsRow(f, 3, Coded(t, 1))>>] :
             f \in {SemGetter, SemOther}, t \in {"Property", "Event"}}

LookupsInit ==
    \E base \in ListTables : \E tbl \in LookupReaders(base) : \E oc \in BOOLEAN :
        Called(tbl, AllStreams, Token("Module", 0), FALSE, oc)

SpecLookups == LookupsInit /\ [][Next]_vars

\* The elements of a sequence.
Range(s) == {s[k] : k \in 1..Len(s)}

\* The rows (0-based) of the map ranges over a table of len rows.
MappedRows(lists, len) ==
    LET o == OwnedRanges(lists, len) IN
    IF o.st # "ok" THEN {}
    ELSE {r \in 0..(len - 1) : \E k \in 1..Len(o.v) : o.v[k].start <= r /\ r < o.v[k].end}

\* The slots of each lookup Vec that its pass writes.
WrittenSlots(kind) ==
    IF kind = "Field" THEN {OwnedPairs(owned_fields)[k][2] : k \in 1..Len(OwnedPairs(owned_fields))}
    ELSE IF kind = "MethodDef"
    THEN {OwnedPairs(owned_methods)[k][2] : k \in 1..Len(OwnedPairs(owned_methods))}
    ELSE IF kind = "Param"
    THEN {ParamPairs(owned_params)[k][2] : k \in 1..Len(ParamPairs(owned_params))}
    ELSE IF kind = "Property"
    THEN MappedRows(Column(tables.property_map, "property_list"), Len(tables.property))
    ELSE MappedRows(Column(tables.event_map, "event_list"), Len(tables.event))

\* The slots of each lookup Vec that the rows of later passes name: the
\* FieldLayout rows, the parents of the custom attributes, and the methods
\* and associations of the MethodSemantics rows.
ReadSlots(kind) ==
    {a.parent.row - 1 : a \in {x \in Range(tables.custom_attribute) : x.parent.tag = kind}}
    \cup {s.association.row - 1 :
             s \in {x \in Range(tables.method_semantics) : x.association.tag = kind}}
    \cup (IF kind = "Field" THEN {l.field - 1 : l \in Range(tables.field_layout)} ELSE {})
    \cup (IF kind = "MethodDef" THEN {s.method - 1 : s \in Range(tables.method_semantics)}
          ELSE {})

LookupPass(kind) ==
    IF kind = "Field" THEN "fields" ELSE IF kind = "MethodDef" THEN "methods"
    ELSE IF kind = "Param" THEN "params" ELSE IF kind = "Property" THEN "properties"
    ELSE "events"

LookupLen(kind) ==
    IF kind = "Field" THEN Len(tables.field) ELSE IF kind = "MethodDef" THEN Len(tables.method_def)
    ELSE IF kind = "Param" THEN Len(tables.param)
    ELSE IF kind = "Property" THEN Len(tables.property) ELSE Len(tables.event)

\* C22: once the pass that fills fields[], methods[], params[], properties[]
\* or events[] has run, every slot of that Vec that a row read by a later
\* pass names has been written by it, whatever the list columns are:
\* no later pass reads a slot that was allocated and never written.
C22_LookupSlotsWrittenBeforeRead ==
    \A kind \in {"Field", "MethodDef", "Param", "Property", "Event"} :
        PassNo(pc) > PassNo(LookupPass(kind)) =>
            \A r \in ReadSlots(kind) :
                r \in 0..(LookupLen(kind) - 1) => r \in WrittenSlots(kind)

(***************************************************************************)
(* The frame of extract_method!.                                           *)
(***************************************************************************)
\* Extracting from parent the method that lookup entry idx designates, at
\* position idx.member.idx of type idx.parent_type, removes that element from
\* the list of that type and nothing else from any type, decrements the
\* entries Method(pos) of that type with pos above the position, and leaves
\* every other entry alone.
ExtractsOnlyThat(tys, meths, parent, idx) ==
    LET x == ExtractMethod(tys, meths, parent, idx)
        t == idx.parent_type
        p == idx.member.idx
    IN  x.st = "ok" =>
            /\ InVec(tys, t) /\ InVec(At(tys, t).methods, p)
            /\ x.v.method = At(At(tys, t).methods, p)
            /\ x.v.types = [tys EXCEPT ![t + 1].methods = RemoveAt(@, p)]
            /\ \A g \in 1..Len(meths) :
                   x.v.methods[g] =
                       IF /\ meths[g].parent_type = t
                          /\ meths[g].member.kind = "Method"
                          /\ meths[g].member.idx > p
                       THEN MethodIndex(t, Method(meths[g].member.idx - 1))
                       ELSE meths[g]

\* The extraction of the listener of the first event (flag: AddOn or
\* RemoveOn) from the accumulator acc of the event pass.
ListenerExtraction(acc, flag) ==
    LET e_idx == tables.event_map[1].event_list - 1
        pos == ListenerPosition(acc.sems, flag, e_idx)
    IN  (pos # 0 /\ InVec(acc.methods, acc.sems[pos].method - 1)) =>
            ExtractsOnlyThat(acc.types, acc.methods, tables.event_map[1].parent - 1,
                             At(acc.methods, acc.sems[pos].method - 1))

\* C23: every extraction of the event pass (the add listener, then the
\* remove listener) and the first one of the remaining MethodSemantics pass,
\* of the method at top-level position p of type t, removes exactly that
\* element from t.methods and decrements exactly the lookup entries of t
\* that are Method(pos) with pos > p; the entries of other types, those of t
\* with pos < p and those with a property or event role are unchanged.
C23_ExtractionFrame ==
    /\ (pc = "events" /\ result = "running" /\ Len(tables.event_map) > 0
        /\ Len(tables.event) > 0) =>
           LET acc == [types |-> types, methods |-> methods, sems |-> tables.method_semantics]
               e_idx == tables.event_map[1].event_list - 1
               add == GetListener(acc, tables.event_map[1].parent - 1, e_idx,
                                  Len(At(types, tables.event_map[1].parent - 1).events),
                                  SemAddOn, Len(tables.method_def))
           IN  /\ ListenerExtraction(acc, SemAddOn)
               /\ add.st = "ok" => ListenerExtraction(add.v, SemRemoveOn)
    /\ (pc = "method_semantics" /\ result = "running" /\ Len(tables.method_semantics) > 0
        /\ InVec(methods, tables.method_semantics[1].method - 1)) =>
           LET mi == At(methods, tables.method_semantics[1].method - 1) IN
           ExtractsOnlyThat(types, methods, mi.parent_type, mi)

(***************************************************************************)
(* The translation of the byte offsets of an exception clause.             *)
(***************************************************************************)
\* The body and the clause of the method bodies scenario.
ClauseSizes == tables.method_def[5].body.sizes
TheClause == tables.method_def[5].body.clauses[1]

\* The byte offsets get_offset! is applied to for a clause.
ClauseBytes(h) ==
    {h.try_offset, h.try_offset + h.try_length, h.handler_offset,
     h.handler_offset + h.handler_length}
    \cup (IF h.flags = 1 THEN {h.class_token_or_filter} ELSE {})

\* The largest instruction start offset (of a body with an instruction).
MaxOffset(sizes) == InstrOffsets(sizes)[Len(sizes)]

\* b is the start of an instruction or maxOffset + 1.
Translatable(sizes, b) ==
    /\ Len(sizes) > 0
    /\ \/ \E i \in 1..Len(sizes) : InstrOffsets(sizes)[i] = b
       \/ b = MaxOffset(sizes) + 1

\* The index claimed for a translatable byte offset.
IndexClaimed(sizes, b) ==
    IF \E i \in 1..Len(sizes) : InstrOffsets(sizes)[i] = b
    THEN (CHOOSE i \in 1..Len(sizes) : InstrOffsets(sizes)[i] = b) - 1
    ELSE Len(sizes)

\* C24: a byte offset b of an exception clause is translated to index i when
\* instruction i starts at byte b and to len(instrs) when b = maxOffset + 1;
\* any other b makes resolve return an error; and a try region that extends
\* to the end of the method's code (try_offset + try_length is the size of
\* the code) resolves to a region ending at index len(instrs).
C24_ByteOffsetsTranslated ==
    LET h == TheClause
        sizes == ClauseSizes
    IN
    /\ result = "ok" =>
           LET e == types[2].methods[1].body[1].exceptions[1] IN
           /\ \A b \in ClauseBytes(h) : Translatable(sizes, b)
           /\ e.try_offset = IndexClaimed(sizes, h.try_offset)
           /\ e.try_offset + e.try_length = IndexClaimed(sizes, h.try_offset + h.try_length)
           /\ e.handler_offset = IndexClaimed(sizes, h.handler_offset)
           /\ e.handler_offset + e.handler_length =
                  IndexClaimed(sizes, h.handler_offset + h.handler_length)
           /\ h.flags = 1 => e.filter_offset = IndexClaimed(sizes, h.class_token_or_filter)
    /\ (h.flags \in {0, 1, 2, 4} /\ \E b \in ClauseBytes(h) : ~Translatable(sizes, b)) =>
           \/ result = "running"
           \/ result = "err" /\ err_at = "method_bodies"
    /\ (/\ h.flags \in {0, 2, 4}
        /\ h.try_offset + h.try_length = Sum(sizes)
        /\ \A b \in ClauseBytes(h) \ {Sum(sizes)} : Translatable(sizes, b)) =>
           \/ result = "running"
           \/ /\ result = "ok"
              /\ LET e == types[2].methods[1].body[1].exceptions[1] IN
                 e.try_offset + e.try_length = Len(sizes)

(***************************************************************************)
(* Scenario: MethodDef row 1 has up to MaxParam parameters in its          *)
(* signature and owns up to MaxParam Param rows, of any sequence up to     *)
(* MaxSequence; the other methods own none.                                *)
(***************************************************************************)
ParamTables ==
    {[Base EXCEPT !.param = ps,
                  !.method_def = [g \in 1..Len(@) |->
                                     [@[g] EXCEPT !.param_list = IF g = 1 THEN 1 ELSE Len(ps) + 1,
                                                  !.num_params = IF g = 1 THEN n ELSE 0]]] :
        n \in 0..MaxParam,
        ps \in SeqUpTo({[sequence |-> q] : q \in 0..MaxSequence}, MaxParam)}

ParamsInit ==
    \E tbl \in ParamTables, oc \in BOOLEAN :
        Called(tbl, AllStreams, Token("Module", 0), FALSE, oc)

SpecParams == ParamsInit /\ [][Next]_vars

\* The Param rows (0-based) of MethodDef row g (0-based): its paramList range.
ParamRowsOf(g) ==
    {r \in 0..(Len(tables.param) - 1) :
        /\ tables.method_def[g + 1].param_list - 1 <= r
        /\ r < (IF g + 2 <= Len(tables.method_def)
                THEN tables.method_def[g + 2].param_list - 1 ELSE Len(tables.param))}

\* The method the output holds for MethodDef row g.
HeldMethod(g) ==
    HeldMethods(types)[CHOOSE k \in 1..Len(HeldMethods(types)) : HeldMethods(types)[k].row = g]

\* C25: each resolved method's parameter_metadata has length 1 + the
\* parameter count of its signature; once the params pass has run, every
\* Param row of a method's paramList range has filled slot param.sequence of
\* that method and params[row] = (methodIdx, sequence); a Param row whose
\* sequence exceeds the method's parameter count makes resolve return an
\* error.
C25_ParamsFillTheirSlots ==
    /\ PassNo(pc) > PassNo("methods") =>
           \A k \in 1..Len(HeldMethods(types)) :
               LET m == HeldMethods(types)[k] IN
               Len(m.parameter_metadata) = 1 + tables.method_def[m.row + 1].num_params
    /\ PassNo(pc) > PassNo("params") =>
           \A g \in MethodRows : \A r \in ParamRowsOf(g) :
               LET seq == tables.param[r + 1].sequence
                   slots == HeldMethod(g).parameter_metadata
               IN  /\ At(params, r) = <<g, seq>>
                   /\ InVec(slots, seq) /\ IsSome(At(slots, seq))
                   /\ tables.param[Unwrap(At(slots, seq)).row + 1].sequence = seq
                   /\ Unwrap(At(slots, seq)).row \in ParamRowsOf(g)
    /\ (\E g \in MethodRows : \E r \in ParamRowsOf(g) :
            tables.param[r + 1].sequence > tables.method_def[g + 1].num_params) =>
           \/ result = "running" /\ PassNo(pc) <= PassNo("params")
           \/ result = "err" /\ err_at = "params"

(***************************************************************************)
(* Scenario: up to MaxExport ExportedType rows named String or Object in   *)
(* the namespace System or in none, and a first TypeRef row with such a    *)
(* name whose resolution scope is Null or a TypeRef row number (0: none,   *)
(* 3: past the two rows of the table).                                     *)
(***************************************************************************)
TypeNames == {"String", "Object"}
Namespaces == {"System", ""}

TypeRefTables ==
    {[Base EXCEPT !.exported_type = exps,
                  !.type_ref[1] = [name |-> n, namespace |-> ns, resolution_scope |-> scope]] :
        exps \in SeqUpTo({[name |-> en, namespace |-> ens,
                           implementation |-> Coded("AssemblyRef", 1)] :
                             en \in TypeNames, ens \in Namespaces}, MaxExport),
        n \in TypeNames, ns \in Namespaces,
        scope \in {Null} \cup {Coded("TypeRef", r) : r \in 0..3}}

TypeRefsInit ==
    \E tbl \in TypeRefTables, oc \in BOOLEAN :
        Called(tbl, AllStreams, Token("Module", 0), FALSE, oc)

SpecTypeRefs == TypeRefsInit /\ [][Next]_vars

\* The ExportedType rows (1-based) with the name and namespace of TypeRef row k.
Forwarders(k) ==
    {j \in 1..Len(tables.exported_type) :
        /\ tables.exported_type[j].name = tables.type_ref[k].name
        /\ tables.exported_type[j].namespace = tables.type_ref[k].namespace}

Least(S) == CHOOSE x \in S : \A y \in S : x <= y

\* C26: once the type reference pass has run, a TypeRef row with a Null
\* resolution scope has the scope Exported(h), h being the handle of the
\* first ExportedType row whose name and namespace both equal the row's, and
\* a TypeRef-scoped row has the scope Nested(idx) with idx < number of
\* TypeRef rows; when no exported type matches a Null-scoped row, resolve
\* returns an error.
C26_NullScopeFindsForwarder ==
    /\ PassNo(pc) > PassNo("type_refs") =>
           \A k \in 1..Len(tables.type_ref) :
               LET scope == tables.type_ref[k].resolution_scope
                   out == shared.type_refs[k].scope
               IN  /\ scope = Null =>
                          /\ Forwarders(k) # {}
                          /\ out = [kind |-> "Exported",
                                    at |-> Handle("ExportedType", Least(Forwarders(k)) - 1)]
                   /\ scope.tag = "TypeRef" =>
                          /\ out = [kind |-> "Nested", at |-> Handle("Index", scope.row - 1)]
                          /\ scope.row - 1 \in 0..(Len(tables.type_ref) - 1)
                   /\ out.kind = "Nested" => scope.tag = "TypeRef"
    /\ (\E k \in 1..Len(tables.type_ref) :
            tables.type_ref[k].resolution_scope = Null /\ Forwarders(k) = {}) =>
           \/ result = "running" /\ PassNo(pc) <= PassNo("type_refs")
           \/ result = "err" /\ err_at = "type_refs"

\* resolve returned Ok for a Null-scoped reference to System.String whose
\* forwarder is the second ExportedType row, the first having the name
\* String in no namespace.
C26_SecondExportMatches ==
    /\ result = "ok"
    /\ tables.type_ref[1] = [name |-> "String", namespace |-> "System", resolution_scope |-> Null]
    /\ Len(tables.exported_type) = 2
    /\ tables.exported_type[1].namespace = ""
    /\ tables.exported_type[1].name = "String"
    /\ shared.type_refs[1].scope = [kind |-> "Exported", at |-> Handle("ExportedType", 1)]

(***************************************************************************)
(* Scenario: the first TypeDef row has any layout bits (flags & 0x18), and *)
(* the ClassLayout table holds up to MaxLayout rows whose parent is TypeDef *)
(* row 1 or 2.                                                             *)
(***************************************************************************)
LayoutTables ==
    {[Base EXCEPT !.type_def[1].flags = f, !.class_layout = ls] :
        f \in {0, 1, 8, 9, 16, 24, 25},
        ls \in SeqUpTo({[parent |-> p] : p \in 1..2}, MaxLayout)}

LayoutsInit ==
    \E tbl \in LayoutTables, oc \in BOOLEAN :
        Called(tbl, AllStreams, Token("Module", 0), FALSE, oc)

SpecLayouts == LayoutsInit /\ [][Next]_vars

\* The first ClassLayout row (1-based) whose parent is TypeDef row t
\* (1-based), 0 when there is none.
FirstClassLayout(t) ==
    LET S == {k \in 1..Len(tables.class_layout) : tables.class_layout[k].parent = t} IN
    IF S = {} THEN 0 ELSE Least(S)

\* C27: once the type definition pass has run, the layout of every TypeDef
\* row is decoded from flags & 0x18: 0x00 is Automatic, 0x08 Sequential and
\* 0x10 Explicit, the latter two with the first ClassLayout row whose parent
\* is this type (or none); and the remaining arm, for the bits 0x18, is
\* never entered: no table contents make resolve panic there.
C27_LayoutDecoded ==
    /\ PassNo(pc) > PassNo("type_defs") =>
           \A t \in 1..Len(tables.type_def) :
               LET bits == LayoutFlags(tables.type_def[t].flags) IN
               /\ bits = 0 => types[t].layout.kind = "Automatic"
               /\ bits = 8 => types[t].layout = [kind |-> "Sequential", row |-> FirstClassLayout(t)]
               /\ bits = 16 => types[t].layout = [kind |-> "Explicit", row |-> FirstClassLayout(t)]
    /\ ~(result = "panic" /\ err_at = "type_defs")

(***************************************************************************)
(* Scenario: each of the two types has one property (Property row 1 in     *)
(* type 0, row 2 in type 1), and one MethodSemantics row beyond the two    *)
(* listeners gives a role handled for its association to MethodDef row 3,  *)
(* 4 (of type 0) or 5 (of type 1).                                         *)
(***************************************************************************)
CrossTypeRows ==
    {SemanticsRow(f, m, Coded("Property", p)) :
        f \in {SemSetter, SemGetter, SemOther}, m \in {3, 4, 5}, p \in {1, 2}}
    \cup {SemanticsRow(f, m, Coded("Event", 1)) : f \in {SemFire, SemOther}, m \in {3, 4, 5}}

CrossTypeInit ==
    \E s \in CrossTypeRows, oc \in BOOLEAN :
        Called([Base EXCEPT !.property = <<[flags |-> 0], [flags |-> 0]>>,
                            !.property_map = <<[parent |-> 1, property_list |-> 1],
                                               [parent |-> 2, property_list |-> 2]>>,
                            !.method_semantics = @ \o <<s>>],
               AllStreams, Token("Module", 0), FALSE, oc)

SpecCrossType == CrossTypeInit /\ [][Next]_vars

\* The MethodDef rows in the slots of properties and events other than the
\* one built from row r of the table named by tag.
RowsInOtherSlots(tag, r) ==
    RowsOf(Flatten([k \in 1..Len(HeldProperties) |->
                       IF tag = "Property" /\ HeldProperties[k].row = r THEN <<>>
                       ELSE PropertySlots(HeldProperties[k])]))
    \o RowsOf(Flatten([k \in 1..Len(HeldEvents) |->
                          IF tag = "Event" /\ HeldEvents[k].row = r THEN <<>>
                          ELSE EventSlots(HeldEvents[k])]))

\* The MethodDef rows in the slots of the property or event built from row r.
RowsInSlotsOf(tag, r) ==
    IF tag = "Property"
    THEN RowsOf(Flatten([k \in 1..Len(HeldProperties) |->
                            IF HeldProperties[k].row = r
                            THEN PropertySlots(HeldProperties[k]) ELSE <<>>]))
    ELSE RowsOf(Flatten([k \in 1..Len(HeldEvents) |->
                            IF HeldEvents[k].row = r THEN EventSlots(HeldEvents[k]) ELSE <<>>]))

\* C28: the remaining MethodSemantics pass stores the method of a row with
\* association Property(p) (resp. Event(e)) in the property built from
\* Property row p (resp. the event built from Event row e), whatever the
\* owning types of the method and of the property (event) are: it does not
\* fail on them, and the method is in no slot of another property or event.
C28_MethodStoredInNamedAssociation ==
    /\ ~(result = "panic" /\ err_at = "method_semantics")
    /\ PassNo(pc) > PassNo("method_semantics") =>
           \A k \in 3..Len(ImageSemantics) :
               LET s == ImageSemantics[k] IN
               /\ Count(RowsInSlotsOf(s.association.tag, s.association.row - 1),
                        s.method - 1) = 1
               /\ Count(RowsInOtherSlots(s.association.tag, s.association.row - 1),
                        s.method - 1) = 0

(***************************************************************************)
(* The arm of extract_method! marked unreachable.                          *)
(***************************************************************************)
\* The lookup entry of the method named by MethodSemantics row s is still
\* Method(_) in the lookup meths.
NamesTopLevel(meths, s) ==
    InVec(meths, s.method - 1) => At(meths, s.method - 1).member.kind = "Method"

\* C29: extract_method is never applied to a method whose lookup entry is no
\* longer Method(_): in the event pass, the remove listener's entry is
\* Method(_) after the add listener was extracted, and in the remaining
\* MethodSemantics pass the entry of each row's method is Method(_) when the
\* row is reached, so that a second row naming the same MethodDef row does
\* not enter the arm marked unreachable.
C29_UnreachableArmNeverEntered ==
    /\ (pc = "events" /\ result = "running" /\ Len(tables.event_map) > 0
        /\ Len(tables.event) > 0) =>
           LET acc == [types |-> types, methods |-> methods, sems |-> tables.method_semantics]
               e_idx == tables.event_map[1].event_list - 1
               add == GetListener(acc, tables.event_map[1].parent - 1, e_idx,
                                  Len(At(types, tables.event_map[1].parent - 1).events),
                                  SemAddOn, Len(tables.method_def))
           IN  add.st = "ok" =>
                   LET pos == ListenerPosition(add.v.sems, SemRemoveOn, e_idx) IN
                   pos # 0 => NamesTopLevel(add.v.methods, add.v.sems[pos])
    /\ (pc = "method_semantics" /\ result = "running") =>
           \A k \in 1..Len(tables.method_semantics) :
               LET prev == MethodSemanticsPass(types, methods, properties, events,
                                               SubSeq(tables.method_semantics, 1, k - 1))
               IN  prev.st = "ok" => NamesTopLevel(prev.v.methods, tables.method_semantics[k])

(***************************************************************************)
(* Scenario: up to MaxSem GenericParam rows of one owner, type 0 or method *)
(* 0 (which becomes an add listener), with any number up to MaxNumber in   *)
(* any order, and one CustomAttribute row whose parent is either one of    *)
(* the GenericParam rows or one of up to two GenericParamConstraint rows.  *)
(***************************************************************************)
OwnedGenericRows(o) ==
    SeqUpTo({[number |-> n, flags |-> 0, owner |-> o] : n \in 0..MaxNumber}, MaxSem) \ {<<>>}

ConstraintRows(len) ==
    UNION {{<<[owner |-> o]>>, <<[owner |-> o], [owner |-> o]>>, <<[owner |-> 1], [owner |-> o]>>} :
              o \in 1..len}

GenericAttributeTables ==
    UNION {{[Base EXCEPT !.generic_param = rows,
                         !.custom_attribute = <<[parent |-> Coded("GenericParam", g),
                                                 attr_type |-> Coded("MethodDef", 3)]>>] :
                g \in 1..Len(rows)}
           \cup
           UNION {{[Base EXCEPT !.generic_param = rows,
                                !.generic_param_constraint = cs,
                                !.custom_attribute =
                                    <<[parent |-> Coded("GenericParamConstraint", c),
                                       attr_type |-> Coded("MethodDef", 3)]>>] :
                      c \in 1..Len(cs)} : cs \in ConstraintRows(Len(rows))} :
        rows \in OwnedGenericRows(Coded("TypeDef", 1)) \cup OwnedGenericRows(Coded("MethodDef", 1))}

GenericAttributesInit ==
    \E tbl \in GenericAttributeTables :
        Called(tbl, AllStreams, Token("Module", 0), FALSE, TRUE)

SpecGenericAttributes == GenericAttributesInit /\ [][Next]_vars

\* C30: a CustomAttribute row whose parent is GenericParam row g is appended
\* to the attributes of the generic parameter built from row g, and one whose
\* parent is GenericParamConstraint row c to the constraint built from row c,
\* whatever the numbers of the owner's generic parameters (gaps, duplicates,
\* rows out of order) and also when the owner is a method relocated into an
\* event slot; the custom attribute pass neither fails nor panics on it.
C30_AttributesReachGenericsAndConstraints ==
    /\ ~(err_at = "custom_attributes" /\ result \in {"err", "panic"})
    /\ PassNo(pc) > PassNo("custom_attributes") =>
           \A k \in 1..Len(tables.custom_attribute) :
               tables.custom_attribute[k].parent.tag \in {"GenericParam", "GenericParamConstraint"} =>
                   Count(AttributesOf(tables.custom_attribute[k].parent), [row |-> k - 1]) = 1

====
